---- MODULE Spec2Model ----
(***************************************************************************)
(* Frame index and cache of the Excalink plugin (FrameIndexer), together   *)
(* with the vault events that drive it.                                    *)
(*                                                                         *)
(* Paths, short names and index keys are sequences of tokens, so that the  *)
(* string operations of the code (endsWith, split('/').pop(), replace)     *)
(* are computed and not assumed.  A handler that awaits vault.read is two  *)
(* steps: the part before the await and the part after it; the task that  *)
(* is suspended at the read sits in `tasks`.                               *)
(***************************************************************************)
EXTENDS Integers, Sequences, FiniteSets, TLC

\* ------------------------------------------------------------------ bounds
MaxMtime == 2
MaxOps == 3
MaxElems == 3
MaxLine == 6

\* the instants of the editor's clock, in units of 100 ms
MaxTime == 6

\* --------------------------------------------------------- program constants
MinPlausibleLength == 50

\* delays in units of 100 ms: the delay of the timeout of update, the
\* default of settings.debounceDelay and the limits of its slider
TimerDelay == 3

DefaultDelay == 3

MinDelay == 1

MaxDelay == 10

\* -------------------------------------------------------------- path strings
P1 == <<"d1", "/", "x", ".excalidraw", ".md">>
P2 == <<"d2", "/", "x", ".excalidraw", ".md">>
P3 == <<"y", ".excalidraw", ".md">>

Paths == {P1, P2, P3}

\* notes: markdown files that are no drawings
PN == <<"n", ".md">>
PM == <<"d1", "/", "m", ".md">>

AllPaths ==
    LET
        Notes == {PN, PM}
    IN
        Paths \cup Notes

\* settings.maxCacheSize: 100 files by default, 10 to 500 on the slider. The
\* model keeps the setting one below the number of drawing paths of its
\* vault, as in a vault that has more drawings than the setting allows.
maxCacheSize == Cardinality(Paths) - 1

TrackedSuffix == <<".excalidraw", ".md">>

RECURSIVE LastSlash(_, _)
LastSlash(s, i) ==
    IF i = 0 THEN 0
    ELSE IF s[i] = "/" THEN i ELSE LastSlash(s, i - 1)

\* oldPath.split('/').pop()
LastSegment(s) == SubSeq(s, LastSlash(s, Len(s)) + 1, Len(s))

\* s.endsWith(suffix)
EndsWith(s, suffix) ==
    /\ Len(s) >= Len(suffix)
    /\ SubSeq(s, Len(s) - Len(suffix) + 1, Len(s)) = suffix

\* a filter that lets every markdown file through
IsMarkdown(p) == EndsWith(p, <<".md">>)

\* file.path.endsWith('.excalidraw.md')
IsTracked(p) == EndsWith(p, TrackedSuffix)

RECURSIVE FindAt(_, _, _)
FindAt(s, pat, i) ==
    IF i + Len(pat) - 1 > Len(s) THEN 0
    ELSE IF SubSeq(s, i, i + Len(pat) - 1) = pat THEN i
    ELSE FindAt(s, pat, i + 1)

\* TFile.basename: the file name without its final extension
Basename(p) ==
    LET name == LastSegment(p) IN
    IF Len(name) > 1 THEN SubSeq(name, 1, Len(name) - 1) ELSE name

\* a variant of OldBasename: the key under which the document was published
OldBasenameAsPublished(oldPath) == Basename(oldPath)

\* oldPath.split('/').pop()?.replace('.excalidraw.md', '') || ''
OldBasename(oldPath) ==
    LET
        \* s.replace(pat, '') : removes the first occurrence of pat
        RemoveFirst(s, pat) ==
            LET i == FindAt(s, pat, 1) IN
            IF i = 0 THEN s
            ELSE SubSeq(s, 1, i - 1) \o SubSeq(s, i + Len(pat), Len(s))
    IN
        RemoveFirst(LastSegment(oldPath), TrackedSuffix)

\* the keys the handlers use: file.basename and oldBasename
ShortNames == {Basename(p) : p \in Paths} \cup {OldBasename(p) : p \in Paths}

\* the names the completion UI looks up
LookupNames == {Basename(p) : p \in Paths}

\* ------------------------------------------------------------ document text
\* A document is what the code inspects of its text: whether it trims to
\* nothing, which fenced block it holds, how the block body is encoded and
\* the elements of the drawing it encodes.
\* An element is what the extractor inspects of a member of `elements`:
\* `kind` is typeof element ("null" for null), `nameType` is typeof
\* element.name, `name` holds the characters of a string name.
FrameA == [kind |-> "object", type |-> "frame", nameType |-> "string",
           name |-> <<"a">>, id |-> <<"f1">>]
FrameB == [kind |-> "object", type |-> "frame", nameType |-> "string",
           name |-> <<" ", "b">>, id |-> <<>>]
Shape  == [kind |-> "object", type |-> "rectangle", nameType |-> "undefined",
           name |-> <<>>, id |-> <<"r1">>]

\* members that are no frames: a number, a frame whose name is only
\* whitespace, a frame without a name, a frame whose name is a number
Junk      == [kind |-> "number", type |-> "none", nameType |-> "undefined",
              name |-> <<>>, id |-> <<>>]
\* the methods of lz-string in the order decompress tries them
Strategies == <<"base64", "utf16", "uri", "raw">>

StrategySet == {Strategies[i] : i \in 1..Len(Strategies)}

\* What a method of lz-string does with the cleaned block body: it throws,
\* or it returns a text of `len` characters (null and '' have len 0) that
\* parses as JSON to a drawing with the elements `data`, or does not parse.
NullOut == [thrown |-> FALSE, len |-> 0, parses |-> FALSE, data |-> <<>>]

TextOut(len, elements) ==
    [thrown |-> FALSE, len |-> len, parses |-> TRUE, data |-> elements]

\* a body that is the output of one encoding: the table holds what that
\* method returns, the methods it leaves out return null
EncodedBy(enc, len, elements) ==
    [s \in StrategySet \cap {enc} |-> TextOut(len, elements)]

\* JSON.parse of the block body as it stands
NoJson == [ok |-> FALSE, data |-> <<>>]

Json(elements) == [ok |-> TRUE, data |-> elements]

\* `chars` stands for the character codes of the text, `lz` for what each
\* method of lz-string makes of the block body, `direct` for what JSON.parse
\* makes of it, `spaced` for whitespace inside the body, `elements` for the
\* drawing the document was saved from; Broken is a document whose read
\* fails.
Blank   == [readable |-> TRUE, blank |-> TRUE, chars |-> <<32>>,
            fence |-> "none", spaced |-> FALSE,
            lz |-> EncodedBy("none", 0, <<>>), direct |-> NoJson,
            elements |-> <<>>]
Garbage == [readable |-> TRUE, blank |-> FALSE, chars |-> <<96, 123>>,
            fence |-> "json", spaced |-> FALSE,
            lz |-> EncodedBy("none", 0, <<>>), direct |-> NoJson,
            elements |-> <<>>]
DocA    == [readable |-> TRUE, blank |-> FALSE, chars |-> <<96, 123, 97>>,
            fence |-> "json", spaced |-> FALSE,
            lz |-> EncodedBy("none", 0, <<>>),
            direct |-> Json(<<Shape, FrameA>>),
            elements |-> <<Shape, FrameA>>]
DocAB   == [readable |-> TRUE, blank |-> FALSE, chars |-> <<96, 78, 98>>,
            fence |-> "compressed-json", spaced |-> FALSE,
            lz |-> EncodedBy("base64", 90, <<FrameA, FrameB>>),
            direct |-> NoJson,
            elements |-> <<FrameA, FrameB>>]
Broken  == [readable |-> FALSE, blank |-> FALSE, chars |-> <<>>,
            fence |-> "none", spaced |-> FALSE,
            lz |-> EncodedBy("none", 0, <<>>), direct |-> NoJson,
            elements |-> <<>>]

\* what a write leaves in a document
Written == {Garbage, DocAB, Broken}

NoFile == [exists |-> FALSE, content |-> Blank, mtime |-> 1]

\* ------------------------------------------------- decoding and extraction
\* a method of lz-string applied to a body: whitespace inside the body is
\* outside every alphabet of lz-string, which then returns null
LzOutput(c, s) ==
    IF c.spaced \/ s \notin DOMAIN c.lz THEN NullOut ELSE c.lz[s]

\* one decompression strategy applied to a block body: the decompressed
\* text is accepted when it is not empty, longer than 50 characters and
\* parses; a throw of the method or of JSON.parse is caught
StrategyAccepts(c, s) ==
    LET o == LzOutput(c, s) IN
    ~o.thrown /\ o.len > 0 /\ o.len > MinPlausibleLength /\ o.parses

\* a decompress that goes on after an accepted strategy and returns the
\* data of the last one accepted
RECURSIVE TryLast(_, _, _)
TryLast(c, i, tried) ==
    IF i > Len(Strategies)
    THEN [ok |-> FALSE, data |-> <<>>, tried |-> tried]
    ELSE LET s == Strategies[i]
             rest == TryLast(c, i + 1, Append(tried, s))
         IN IF ~rest.ok /\ StrategyAccepts(c, s)
            THEN [ok |-> TRUE, data |-> LzOutput(c, s).data, tried |-> rest.tried]
            ELSE rest

\* the strategies from the i-th on, in order: the first accepted one returns
\* its parsed data; `tried` lists the methods called; ok is FALSE when the
\* call throws 'All decompression methods failed'
RECURSIVE TryFrom(_, _, _)
TryFrom(c, i, tried) ==
    IF i > Len(Strategies)
    THEN [ok |-> FALSE, data |-> <<>>, tried |-> tried]
    ELSE LET s == Strategies[i] IN
         IF StrategyAccepts(c, s)
         THEN [ok |-> TRUE, data |-> LzOutput(c, s).data,
               tried |-> Append(tried, s)]
         ELSE TryFrom(c, i + 1, Append(tried, s))

\* a decompress that hands the body to lz-string as it is stored
decompressAsStored(c) == TryFrom(c, 1, <<>>)

\* ExcalidrawDecompressor.decompress
decompress(c) ==
    LET
        \* compressedData.replace(/\s/g, '')
        CleanData == [c EXCEPT !.spaced = FALSE]
    IN
        TryFrom(CleanData, 1, <<>>)

\* ExcalidrawDecompressor.decompress returns, FALSE when it throws
DecompressOk(c) == decompress(c).ok

\* JSON.parse of the block body
JsonParseOk(c) == c.direct.ok

\* the characters String.prototype.trim removes (three of them)
Whitespace == {" ", "\t", "\n"}

RECURSIVE TrimLeft(_)
TrimLeft(n) ==
    IF n # <<>> /\ Head(n) \in Whitespace THEN TrimLeft(Tail(n)) ELSE n

RECURSIVE TrimRight(_)
TrimRight(n) ==
    IF n # <<>> /\ n[Len(n)] \in Whitespace THEN TrimRight(SubSeq(n, 1, Len(n) - 1)) ELSE n

\* String.prototype.trim
Trim(n) == TrimRight(TrimLeft(n))

\* element.id || `frame_${i}`, i counted from 0
FrameId(e, i) ==
    LET
        Digits == <<"0", "1", "2", "3", "4", "5", "6", "7", "8", "9">>
    IN
        IF e.id # <<>> THEN e.id ELSE <<"frame_", Digits[i + 1]>>

\* an extractor that keeps one record per frame name
RECURSIVE ExtractFromDistinctNames(_, _)
ExtractFromDistinctNames(elements, i) ==
    IF i > Len(elements) THEN <<>>
    ELSE LET e == elements[i] IN
         IF /\ e.kind = "object"
            /\ e.type = "frame" /\ e.name # <<>> /\ e.nameType = "string"
            /\ Trim(e.name) # <<>>
            /\ \A m \in 1..(i - 1) : Trim(elements[m].name) # Trim(e.name)
         THEN <<[name |-> Trim(e.name), id |-> FrameId(e, i - 1)]>>
                  \o ExtractFromDistinctNames(elements, i + 1)
         ELSE ExtractFromDistinctNames(elements, i + 1)

RECURSIVE ExtractFrom(_, _)
ExtractFrom(elements, i) ==
    IF i > Len(elements) THEN <<>>
    ELSE LET e == elements[i] IN
         IF /\ e.kind = "object"
            /\ e.type = "frame" /\ e.name # <<>> /\ e.nameType = "string"
            /\ Trim(e.name) # <<>>
         THEN <<[name |-> Trim(e.name), id |-> FrameId(e, i - 1)]>>
                  \o ExtractFrom(elements, i + 1)
         ELSE ExtractFrom(elements, i + 1)

extractFramesFromExcalidrawData(elements) == ExtractFrom(elements, 1)

\* a parser that gives up when the first way of decoding fails
parseFramesWithoutFallback(c) ==
    IF c.blank THEN <<>>
    ELSE IF c.fence = "none" THEN <<>>
    ELSE IF c.fence = "compressed-json"
         THEN IF DecompressOk(c)
              THEN extractFramesFromExcalidrawData(decompress(c).data)
              ELSE <<>>
         ELSE IF JsonParseOk(c)
              THEN extractFramesFromExcalidrawData(c.direct.data)
              ELSE <<>>

\* the first block of `blocks` from the i-th on whose fence carries `tag`,
\* 0 when there is none
RECURSIVE FirstTagged(_, _, _)
FirstTagged(blocks, tag, i) ==
    IF i > Len(blocks) THEN 0
    ELSE IF blocks[i].tag = tag THEN i
    ELSE FirstTagged(blocks, tag, i + 1)

\* the three matches of parseFramesFromContent on a document of several
\* fenced blocks (fence = "several"; each block is closed and stands on
\* lines of its own): the result describes the text that is decoded. A
\* document of at most one block is described by its fence already.
jsonMatch(c) ==
    IF c.fence # "several" THEN c
    ELSE
        LET
            \* the text between two blocks
            Prose == [spaced |-> TRUE, lz |-> EncodedBy("none", 0, <<>>),
                      direct |-> NoJson]
            Found(fence, body) ==
                [c EXCEPT !.fence = fence, !.spaced = body.spaced,
                          !.lz = body.lz, !.direct = body.direct]
            compressed == FirstTagged(c.blocks, "compressed-json", 1)
            json == FirstTagged(c.blocks, "json", 1)
        IN
            \* /```compressed-json\n([\s\S]*?)\n```/
            IF compressed > 0
            THEN Found("compressed-json", c.blocks[compressed])
            \* /```json\n([\s\S]*?)\n```/
            ELSE IF json > 0 THEN Found("json", c.blocks[json])
            \* /```\n([\s\S]*?)\n```/ begins at the first fence that is
            \* followed by a line break, the opening of an untagged block or
            \* the closing of any block, and ends before the next fence
            ELSE IF c.blocks = <<>> THEN [c EXCEPT !.fence = "none"]
            ELSE IF c.blocks[1].tag = "" THEN Found("", c.blocks[1])
            ELSE IF Len(c.blocks) > 1 THEN Found("", Prose)
            ELSE [c EXCEPT !.fence = "none"]

parseFramesFromContent(c) ==
    IF c.blank THEN <<>>
    ELSE LET m == jsonMatch(c) IN
         IF m.fence = "none" THEN <<>>
         ELSE IF m.fence = "compressed-json"
              THEN IF DecompressOk(m)
                   THEN extractFramesFromExcalidrawData(decompress(m).data)
                   ELSE IF JsonParseOk(m)
                        THEN extractFramesFromExcalidrawData(m.direct.data)
                        ELSE <<>>
              ELSE IF JsonParseOk(m)
                   THEN extractFramesFromExcalidrawData(m.direct.data)
                   ELSE IF DecompressOk(m)
                        THEN extractFramesFromExcalidrawData(decompress(m).data)
                        ELSE <<>>

\* a 32-bit integer is kept as its two 16-bit halves <<high, low>>
Half == 65536

RECURSIVE HashFrom(_, _, _)
HashFrom(chars, i, hash) ==
    LET
        \* ((hash << 5) - hash) + char, then hash & hash : 31 * hash + char mod 2^32
        HashStep(h, char) ==
            LET low == h[2] * 31 + char
                high == h[1] * 31 + (low \div Half)
            IN <<high % Half, low % Half>>
    IN
        IF i > Len(chars) THEN hash
        ELSE HashFrom(chars, i + 1, HashStep(hash, chars[i]))

generateContentHash(c) == HashFrom(c.chars, 1, <<0, 0>>)

\* ---------------------------------------------------------- map operations
Put(f, k, v) == [x \in DOMAIN f \cup {k} |-> IF x = k THEN v ELSE f[x]]
Del(f, k) == [x \in DOMAIN f \ {k} |-> f[x]]
Empty == [x \in {} |-> <<>>]

\* frameIndex is an object literal: the property names it inherits from
\* Object.prototype (two of them stand for all)
ObjectPrototype == {<<"constructor">>, <<"toString">>}

\* this.frameIndex[fileName] || []
LookupIn(idx, name) ==
    LET
        \* the inherited member a property read returns: a function, not a frame list
        Inherited == <<[member |-> name]>>
    IN
        IF name \in DOMAIN idx THEN idx[name]
        ELSE IF name \in ObjectPrototype THEN Inherited
        ELSE <<>>

\* --------------------------------------------------------- the edited line
\* A line of the note is a sequence of tokens; positions count from 0 as
\* in the code.

\* String.prototype.substring(a, b): both ends are clamped to the string
\* and swapped when a > b
Substring(s, a, b) ==
    LET Min(x, y) == IF x < y THEN x ELSE y
        Max(x, y) == IF x > y THEN x ELSE y
        ca == Max(0, Min(a, Len(s)))
        cb == Max(0, Min(b, Len(s)))
    IN SubSeq(s, Min(ca, cb) + 1, Max(ca, cb))

\* s.includes(pat)
Includes(s, pat) == FindAt(s, pat, 1) # 0

\* s.startsWith(pat)
StartsWith(s, pat) == Len(s) >= Len(pat) /\ SubSeq(s, 1, Len(pat)) = pat

\* s.replace(pat, by) : replaces the first occurrence of pat
ReplaceFirst(s, pat, by) ==
    LET i == FindAt(s, pat, 1) IN
    IF i = 0 THEN s
    ELSE SubSeq(s, 1, i - 1) \o by \o SubSeq(s, i + Len(pat), Len(s))

\* 'Look for [[ before cursor': the loop that walks back from the cursor
RECURSIVE FindStart(_, _)
FindStart(lineText, i) ==
    IF i < 0 THEN -1
    ELSE IF Substring(lineText, i, i + 2) = <<"[", "[">> THEN i
    ELSE IF lineText[i + 1] \in {"]", "\n"} THEN -1
    ELSE FindStart(lineText, i - 1)

\* 'Find ]] after cursor': the loop that walks forward from the cursor
RECURSIVE FindEnd(_, _)
FindEnd(lineText, i) ==
    IF i >= Len(lineText) - 1 THEN -1
    ELSE IF Substring(lineText, i, i + 2) = <<"]", "]">> THEN i + 2
    ELSE FindEnd(lineText, i + 1)

\* the null that findWikilinkAtCursor returns
NoMatch == [found |-> FALSE]

findWikilinkAtCursor(lineText, cursorPos) ==
    LET
        \* endPos > cursorPos ? endPos - 2 : endPos
        ContentEnd(endPos) ==
            IF endPos > cursorPos THEN endPos - 2 ELSE endPos

        \* wikilinkContent.split('#', 2) : the first two pieces
        SplitHash(content) ==
            LET i == FindAt(content, <<"#">>, 1)
                rest == SubSeq(content, i + 1, Len(content))
                j == FindAt(rest, <<"#">>, 1)
            IN [filename |-> SubSeq(content, 1, i - 1),
                partialFrame |-> IF j = 0 THEN rest ELSE SubSeq(rest, 1, j - 1)]
    IN
        IF lineText = <<>> \/ cursorPos < 0 \/ cursorPos > Len(lineText)
        THEN NoMatch
        ELSE LET startPos == FindStart(lineText, cursorPos - 1) IN
             IF startPos = -1 THEN NoMatch
             ELSE LET closing == FindEnd(lineText, cursorPos)
                      endPos == IF closing = -1 THEN cursorPos ELSE closing
                      contentEnd == ContentEnd(endPos)
                      wikilinkContent ==
                          Substring(lineText, startPos + 2, contentEnd)
                  IN IF wikilinkContent = <<>> \/ Trim(wikilinkContent) = <<>>
                     THEN NoMatch
                     ELSE IF ~Includes(wikilinkContent, <<"#">>) THEN NoMatch
                     ELSE LET parts == SplitHash(wikilinkContent) IN
                          IF parts.filename = <<>> \/ Trim(parts.filename) = <<>>
                          THEN NoMatch
                          ELSE [found |-> TRUE,
                                startPos |-> startPos,
                                endPos |-> endPos,
                                fullMatch |->
                                    Substring(lineText, startPos, endPos),
                                filename |-> Trim(parts.filename),
                                partialFrame |-> parts.partialFrame,
                                isComplete |-> endPos > cursorPos]

\* [...new Set(variations)] : the first occurrence of each member is kept
RECURSIVE Dedupe(_, _)
Dedupe(s, i) ==
    IF i > Len(s) THEN <<>>
    ELSE IF \E k \in 1..(i - 1) : s[k] = s[i] THEN Dedupe(s, i + 1)
    ELSE <<s[i]>> \o Dedupe(s, i + 1)

generateFilenameVariations(filename) ==
    LET variations ==
            <<filename,
              ReplaceFirst(filename, <<".excalidraw">>, <<>>),
              ReplaceFirst(filename, <<".excalidraw", ".md">>, <<>>),
              ReplaceFirst(filename, <<".excalidraw">>,
                           <<".excalidraw", ".md">>)>>
        all == IF EndsWith(filename, <<".md">>) THEN variations
               ELSE Append(variations, filename \o <<".md">>)
    IN Dedupe(all, 1)

\* partialFrame.replace(/^\^frame=/, '').replace(/^\^/, '')
cleanPartialFrame(partialFrame) ==
    LET first == IF StartsWith(partialFrame, <<"^", "frame=">>)
                 THEN SubSeq(partialFrame, 3, Len(partialFrame))
                 ELSE partialFrame
    IN IF StartsWith(first, <<"^">>) THEN Tail(first) ELSE first

\* the loop over the variations: the first name with frames in the Index
RECURSIVE FirstWithFrames(_, _, _)
FirstWithFrames(idx, names, i) ==
    LET
        \* Array.isArray(foundFrames): a list of frame records
        IsFrameArray(found) == \A k \in DOMAIN found : "id" \in DOMAIN found[k]
    IN
        IF i > Len(names) THEN [filename |-> <<>>, frames |-> <<>>]
        ELSE LET foundFrames == LookupIn(idx, names[i]) IN
             IF foundFrames # <<>> /\ IsFrameArray(foundFrames)
             THEN [filename |-> names[i], frames |-> foundFrames]
             ELSE FirstWithFrames(idx, names, i + 1)

\* String.prototype.toLowerCase
toLowerCase(s) ==
    LET
        \* the upper-case letters of the model's alphabet and their lower case
        LowerCase(ch) == IF ch = "A" THEN "a" ELSE ch
    IN
        [k \in DOMAIN s |-> LowerCase(s[k])]

\* frames.filter(frame => frame.name.toLowerCase().includes(partial))
MatchingFrames(frames, partialFrame) ==
    IF partialFrame = <<>> THEN frames
    ELSE LET clean == toLowerCase(cleanPartialFrame(partialFrame))
             Keeps(frame) == /\ frame.name # <<>>
                             /\ Includes(toLowerCase(frame.name), clean)
         IN SelectSeq(frames, Keeps)

\* no modal is open
NoModal == [open |-> FALSE]

\* handleWikilinkDetection and showFrameSuggestModal: the modal that is
\* opened for the match, NoModal when none is
ModalFor(idx, match) ==
    LET hit == FirstWithFrames(idx,
                   generateFilenameVariations(match.filename), 1)
        matchingFrames == MatchingFrames(hit.frames, match.partialFrame)
    IN IF hit.frames # <<>> /\ matchingFrames # <<>>
          /\ Trim(hit.filename) # <<>>
       THEN [open |-> TRUE, frames |-> matchingFrames,
             filename |-> hit.filename, match |-> match]
       ELSE NoModal

\* selectedFrame.name.replace(/[\[\]]/g, '')
RECURSIVE WithoutBrackets(_)
WithoutBrackets(name) ==
    IF name = <<>> THEN <<>>
    ELSE IF Head(name) \in {"[", "]"} THEN WithoutBrackets(Tail(name))
    ELSE <<Head(name)>> \o WithoutBrackets(Tail(name))

\* a sanitizer that trims the name and keeps its brackets
TrimOnly(name) == Trim(name)

\* selectedFrame.name.replace(/[\[\]]/g, '').trim()
Sanitize(name) == Trim(WithoutBrackets(name))

\* an insertFrameLink that replaces the text at the positions of the match
\* it was given, also when the text there has changed
insertFrameLinkAtDetectedPositions(selectedFrame, filename, match, lineText, cursor) ==
    LET refused == [done |-> FALSE, line |-> lineText, cursor |-> cursor,
                    from |-> 0, to |-> 0, link |-> <<>>]
        currentText == Substring(lineText, match.startPos, match.endPos)
        newMatch == findWikilinkAtCursor(lineText, cursor)
        moved == currentText # match.fullMatch
        sanitizedFrameName == Sanitize(selectedFrame.name)
        body == <<"[", "[">> \o match.filename \o <<"#", "^", "frame=">>
                    \o sanitizedFrameName
        afterCursor == Substring(lineText, match.endPos, Len(lineText))
        finalFrameLink ==
            IF ~match.isComplete /\ StartsWith(afterCursor, <<"]", "]">>)
            THEN body
            ELSE body \o <<"]", "]">>
    IN IF selectedFrame.name = <<>> THEN refused
       ELSE IF filename = <<>> \/ Trim(filename) = <<>> THEN refused
       ELSE IF \/ match.startPos < 0 \/ match.endPos < 0
               \/ match.startPos >= Len(lineText)
               \/ match.endPos > Len(lineText)
            THEN refused
       ELSE IF moved /\ ~(newMatch.found
                          /\ newMatch.filename = match.filename)
            THEN refused
       ELSE IF sanitizedFrameName = <<>> THEN refused
       ELSE [done |-> TRUE,
             line |-> SubSeq(lineText, 1, match.startPos) \o finalFrameLink
                          \o SubSeq(lineText, match.endPos + 1, Len(lineText)),
             cursor |-> match.startPos + Len(finalFrameLink),
             from |-> match.startPos, to |-> match.endPos,
             link |-> finalFrameLink]

\* insertFrameLink on a note of one line: the line and the cursor after the
\* call; `done` is FALSE when the call returns without a transaction
insertFrameLink(selectedFrame, filename, match, lineText, cursor) ==
    LET refused == [done |-> FALSE, line |-> lineText, cursor |-> cursor,
                    from |-> 0, to |-> 0, link |-> <<>>]
        currentText == Substring(lineText, match.startPos, match.endPos)
        newMatch == findWikilinkAtCursor(lineText, cursor)
        moved == currentText # match.fullMatch
        replaceFrom == IF moved THEN newMatch.startPos ELSE match.startPos
        replaceTo == IF moved THEN newMatch.endPos ELSE match.endPos
        sanitizedFrameName == Sanitize(selectedFrame.name)
        body == <<"[", "[">> \o match.filename \o <<"#", "^", "frame=">>
                    \o sanitizedFrameName
        afterCursor == Substring(lineText, match.endPos, Len(lineText))
        finalFrameLink ==
            IF ~match.isComplete /\ StartsWith(afterCursor, <<"]", "]">>)
            THEN body
            ELSE body \o <<"]", "]">>
    IN IF selectedFrame.name = <<>> THEN refused
       ELSE IF filename = <<>> \/ Trim(filename) = <<>> THEN refused
       ELSE IF \/ match.startPos < 0 \/ match.endPos < 0
               \/ match.startPos >= Len(lineText)
               \/ match.endPos > Len(lineText)
            THEN refused
       ELSE IF moved /\ ~(newMatch.found
                          /\ newMatch.filename = match.filename)
            THEN refused
       ELSE IF sanitizedFrameName = <<>> THEN refused
       ELSE IF replaceFrom > Len(lineText) \/ replaceTo > Len(lineText)
            THEN refused
       ELSE [done |-> TRUE,
             line |-> SubSeq(lineText, 1, replaceFrom) \o finalFrameLink
                          \o SubSeq(lineText, replaceTo + 1, Len(lineText)),
             cursor |-> replaceFrom + Len(finalFrameLink),
             from |-> replaceFrom, to |-> replaceTo,
             link |-> finalFrameLink]

\* ------------------------------------------------------------------- state
VARIABLES
    vault,          \* path -> [exists, content, mtime] : the document store
    frameIndex,     \* FrameIndexer.frameIndex : short name -> frames
    frameCache,     \* FrameIndexer.frameCache : path -> CacheEntry
    isInitialized,  \* FrameIndexer.isInitialized
    watching,       \* settings.enableFileWatching: the listeners are registered
    tasks,          \* slot -> the handler suspended at an await, or Idle
    report,         \* the counts logged by the scan that completed last
    ops,            \* operations begun so far: scans, clears, file changes
    streak,         \* scans that ran alone to their end with nothing in between
    probe,          \* a lookup made while a scan was suspended at a read
    lastOp,         \* the step of the indexer taken last
    editor          \* the note being edited, the setting and the modal

vars == <<vault, frameIndex, frameCache, isInitialized, watching, tasks, report,
          ops, streak, probe, lastOp, editor>>

getFramesForFile(name) == LookupIn(frameIndex, name)

\* two calls can be suspended at their reads at the same time
Slots == {1, 2}

Idle == [op |-> "idle", pc |-> "idle", path |-> <<>>, mtime |-> 0,
         old |-> <<>>, todo |-> <<>>, total |-> 0,
         hits |-> 0, misses |-> 0, skipped |-> 0, processed |-> 0,
         reads |-> 0, before |-> Empty, alone |-> FALSE, follows |-> FALSE,
         seen |-> {}, forced |-> FALSE, clean |-> FALSE, after |-> FALSE,
         overlap |-> FALSE]

NoOp == [op |-> "init", path |-> <<>>, old |-> <<>>, ok |-> TRUE,
         done |-> FALSE, escaped |-> FALSE]

NoProbe == [taken |-> FALSE, name |-> <<>>, result |-> <<>>, before |-> <<>>]

NoReport == [hits |-> 0, misses |-> 0, skipped |-> 0, processed |-> 0,
             reads |-> 0, total |-> 0]

\* the plugin is loaded with its default settings on an empty note:
\* `enabled` is settings.enableFrameSuggestions, `registered` tells that a
\* view plugin of Excalink is installed in the editor, `offInput` that the
\* last input arrived while the setting was off, `checked` that the
\* pattern check has run on the line and the cursor, `listeners` counts the
\* calls of setupFileChangeListeners, `initializing` tells that a call of
\* initializeCore is waiting for its scan. `clock` is the time of the
\* editor: the instant `now`, the timeouts that are pending in `timers`,
\* each with the instant it was set at and the one it is due at, the value
\* of this.debounceTimer in `handle` (due 0 stands for null), the instant of
\* the last update, settings.debounceDelay, whether destroy() was called
\* and the number of pattern checks that timeouts have run
NoEditor ==
    LET
        \* nothing was picked in a modal yet
        NoSelection == [taken |-> FALSE]
        NoClock == [now |-> 0, timers |-> {}, handle |-> [at |-> 0, due |-> 0],
                    lastUpdate |-> 0, debounceDelay |-> DefaultDelay,
                    destroyed |-> FALSE, checks |-> 0]
    IN
        [enabled |-> TRUE, registered |-> FALSE, lineText |-> <<>>,
         cursor |-> 0, debounceTimer |-> FALSE, currentModal |-> NoModal,
         offInput |-> FALSE, checked |-> FALSE, selected |-> NoSelection,
         listeners |-> 0, initializing |-> FALSE, clock |-> NoClock]

File(c) == [exists |-> TRUE, content |-> c, mtime |-> 1]

\* the vaults the plugin is loaded on: d1/x and the note n exist, y is a
\* blank document, d2/x and the note m are free
InitialVaults ==
    {[p \in AllPaths |-> IF p \in {P1, PN} THEN a
                         ELSE IF p = P3 THEN b ELSE NoFile] :
        a \in {File(DocA)},
        b \in {File(Blank)}}

Init ==
    /\ vault \in InitialVaults
    /\ frameIndex = Empty
    /\ frameCache = Empty
    /\ isInitialized = FALSE
    /\ watching \in BOOLEAN
    /\ tasks = [i \in Slots |-> Idle]
    /\ report = NoReport
    /\ ops = 0
    /\ streak = 0
    /\ probe = NoProbe
    /\ lastOp = NoOp
    /\ editor = NoEditor

\* --------------------------------------------- extractFramesFromFileWithCache
\* a cache test that serves an entry only when the document is newer
CacheHitWhenNewer(cache, p, mtime) ==
    p \in DOMAIN cache /\ cache[p].lastModified < mtime

\* cacheEntry && cacheEntry.lastModified === currentModTime
CacheHit(cache, p, mtime) ==
    p \in DOMAIN cache /\ cache[p].lastModified = mtime

\* if (frames.length > 0) this.frameIndex[file.basename] = frames
Publish(idx, name, frames) ==
    IF Len(frames) > 0 THEN Put(idx, name, frames) ELSE idx

\* the part before `await this.vault.read(file)`
BeginExtract(idx, cache, p, mtime) ==
    IF CacheHit(cache, p, mtime)
    THEN [hit |-> TRUE, index |-> Publish(idx, Basename(p), cache[p].frames)]
    ELSE [hit |-> FALSE, index |-> idx]

\* await this.vault.read(file): the read fails for a missing or broken file
ReadOk(f) == f.exists /\ f.content.readable

\* a resume that keeps no cache entry for a document without content
ResumeExtractForgetsBlank(idx, cache, p, mtime, f) ==
    IF ~ReadOk(f)
    THEN IF p \in DOMAIN cache
         THEN [index |-> Publish(idx, Basename(p), cache[p].frames),
               cache |-> cache, fromCache |-> TRUE, threw |-> TRUE]
         ELSE [index |-> idx, cache |-> cache, fromCache |-> FALSE,
               threw |-> TRUE]
    ELSE IF f.content.blank
    THEN [index |-> idx, cache |-> cache, fromCache |-> FALSE,
          threw |-> FALSE]
    ELSE LET frames == parseFramesFromContent(f.content) IN
         [index |-> Publish(idx, Basename(p), frames),
          cache |-> Put(cache, p,
                        [contentHash |-> generateContentHash(f.content),
                         frames |-> frames, lastModified |-> mtime]),
          fromCache |-> FALSE, threw |-> FALSE]

\* the part after the await; f is the document as the read finds it
ResumeExtract(idx, cache, p, mtime, f) ==
    IF ~ReadOk(f)
    THEN IF p \in DOMAIN cache
         THEN [index |-> Publish(idx, Basename(p), cache[p].frames),
               cache |-> cache, fromCache |-> TRUE, threw |-> TRUE]
         ELSE [index |-> idx, cache |-> cache, fromCache |-> FALSE,
               threw |-> TRUE]
    ELSE IF f.content.blank
    THEN [index |-> idx,
          cache |-> Put(cache, p, [contentHash |-> <<>>, frames |-> <<>>,
                                   lastModified |-> mtime]),
          fromCache |-> FALSE, threw |-> FALSE]
    ELSE LET frames == parseFramesFromContent(f.content) IN
         [index |-> Publish(idx, Basename(p), frames),
          cache |-> Put(cache, p,
                        [contentHash |-> generateContentHash(f.content),
                         frames |-> frames, lastModified |-> mtime]),
          fromCache |-> FALSE, threw |-> FALSE]

\* ---------------------------------------------------------------- bookkeeping
FreeSlot == CHOOSE i \in Slots : tasks[i].op = "idle" /\
                \A j \in Slots : tasks[j].op = "idle" => i <= j

HasFreeSlot == \E i \in Slots : tasks[i].op = "idle"

AllIdle == \A i \in Slots : tasks[i].op = "idle"

\* something other than the task itself happened while it was suspended
Disturbed(ts) ==
    [i \in Slots |->
        [ts[i] EXCEPT !.alone = FALSE, !.clean = FALSE, !.after = FALSE]]

\* vault.read returns the document as it is at some moment between the call
\* and the resumption: a read in flight may see each state the file takes
Observed(ts) ==
    [i \in Slots |->
        IF ts[i].pc = "read"
        THEN [ts[i] EXCEPT !.seen = @ \cup {vault'[ts[i].path]}]
        ELSE ts[i]]

\* an operation whose errors leave it uncaught
EscapedUncaught(op, threw) == threw

\* whether an error thrown in `op` leaves `op`: the outer catch of the scan
\* throws again when the listing failed; extractFramesFromFileWithCache
\* returns from its catch, and the loop of the scan and the handlers have
\* a catch of their own
Escaped(op, threw) == threw /\ op = "scanStart"

\* the step taken last: `ok` is FALSE when something was thrown in it,
\* `escaped` is TRUE when the call rejected towards its caller
Op(op, p, old, ok, done) ==
    [op |-> op, path |-> p, old |-> old, ok |-> ok, done |-> done,
     escaped |-> Escaped(op, ~ok)]

\* ------------------------------------------------------ scanAllExcalidrawFiles
IsCandidate(p) == vault[p].exists /\ IsTracked(p)

\* this.vault.getMarkdownFiles().filter(...)
Candidates ==
    LET
        \* the order in which vault.getMarkdownFiles() lists the files
        FileOrder == <<P1, PN, P2, P3, PM>>
    IN
        SelectSeq(FileOrder, IsCandidate)

\* the loop goes on to the next file, or the scan ends when none is left
ScanContinue(i, t, others) ==
    IF t.todo = <<>>
    THEN /\ tasks' = [j \in Slots |->
                         IF j = i THEN Idle
                         ELSE IF others[j].op = "scan"
                         THEN [others[j] EXCEPT !.after = t.forced /\ t.clean]
                         ELSE others[j]]
         /\ report' = [hits |-> t.hits, misses |-> t.misses,
                       skipped |-> t.skipped, processed |-> t.processed,
                       reads |-> t.reads, total |-> t.total]
         /\ isInitialized' = TRUE
         /\ streak' = IF ~t.alone THEN 0 ELSE IF t.follows THEN 2 ELSE 1
         /\ probe' = NoProbe
    ELSE /\ tasks' = [others EXCEPT ![i] = t]
         /\ UNCHANGED <<report, isInitialized, streak, probe>>

OthersDisturbed(i) ==
    [j \in Slots |-> IF j = i THEN tasks[j] ELSE [tasks[j] EXCEPT !.alone = FALSE]]

ScanSlots == {i \in Slots : tasks[i].op = "scan"}

\* the listing of the vault succeeds: the index is reset and the loop begins
BeginScan(op) ==
    LET
        \* scans, and nothing but scans, are suspended
        OnlyScansInFlight ==
            /\ ScanSlots # {}
            /\ \A j \in Slots : tasks[j].op \in {"idle", "scan"}
        i == FreeSlot
        todo == Candidates
        t == [Idle EXCEPT !.op = "scan", !.pc = "loop", !.todo = todo,
                          !.total = Len(todo), !.before = frameIndex,
                          !.alone = AllIdle,
                          !.follows = op = "scanStart" /\ streak >= 1,
                          !.forced = op = "forceRescan" /\ OnlyScansInFlight,
                          !.clean = TRUE]
    IN /\ frameIndex' = Empty
       /\ lastOp' = Op(op, <<>>, <<>>, TRUE, todo = <<>>)
       /\ ScanContinue(i, t, Disturbed(tasks))

\* scanAllExcalidrawFiles
ScanStart ==
    /\ ops < MaxOps /\ ops' = ops + 1
    /\ HasFreeSlot
    /\ BeginScan("scanStart")
    /\ UNCHANGED <<vault, frameCache, watching, editor>>

\* forceRescan: clearCache() and the start of the scan run in one turn
ForceRescan ==
    /\ ops < MaxOps /\ ops' = ops + 1
    /\ HasFreeSlot
    /\ frameCache' = Empty
    /\ BeginScan("forceRescan")
    /\ UNCHANGED <<vault, watching, editor>>

\* a scan that resets the Index before it lists the vault
ScanEnumFailAfterReset ==
    /\ ops < MaxOps /\ ops' = ops + 1
    /\ isInitialized' = FALSE
    /\ frameIndex' = Empty
    /\ lastOp' = Op("scanStart", <<>>, <<>>, FALSE, TRUE)
    /\ tasks' = Disturbed(tasks)
    /\ streak' = 0
    /\ UNCHANGED <<vault, frameCache, watching, editor, report, probe>>

\* the listing of the vault throws: the outer catch of the scan
ScanEnumFail ==
    /\ ops < MaxOps /\ ops' = ops + 1
    /\ isInitialized' = FALSE
    /\ lastOp' = Op("scanStart", <<>>, <<>>, FALSE, TRUE)
    /\ tasks' = Disturbed(tasks)
    /\ streak' = 0
    /\ UNCHANGED <<vault, frameIndex, frameCache, watching, editor, report, probe>>

\* one turn of the loop that is served from the cache
ScanHit(i) ==
    /\ tasks[i].op = "scan" /\ tasks[i].pc = "loop" /\ tasks[i].todo # <<>>
    /\ LET t == tasks[i]
           p == Head(t.todo)
           b == BeginExtract(frameIndex, frameCache, p, vault[p].mtime)
       IN /\ b.hit
          /\ frameIndex' = b.index
          /\ lastOp' = Op("scanHit", p, <<>>, TRUE, Tail(t.todo) = <<>>)
          /\ ScanContinue(i, [t EXCEPT !.hits = @ + 1, !.processed = @ + 1,
                                       !.todo = Tail(@)],
                          OthersDisturbed(i))
    /\ UNCHANGED <<vault, frameCache, watching, editor, ops>>

\* one turn of the loop that misses the cache and suspends at the read
ScanMiss(i) ==
    /\ tasks[i].op = "scan" /\ tasks[i].pc = "loop" /\ tasks[i].todo # <<>>
    /\ LET t == tasks[i]
           p == Head(t.todo)
           b == BeginExtract(frameIndex, frameCache, p, vault[p].mtime)
       IN /\ ~b.hit
          /\ tasks' = [OthersDisturbed(i) EXCEPT ![i] =
                          [t EXCEPT !.pc = "read", !.path = p,
                                    !.mtime = vault[p].mtime, !.reads = @ + 1,
                                    !.seen = {vault[p]}]]
          /\ lastOp' = Op("scanMiss", p, <<>>, TRUE, FALSE)
    /\ UNCHANGED <<vault, frameIndex, frameCache, isInitialized, watching, editor,
                   report, ops, streak, probe>>

\* the read of the scan returns or throws; the loop counts the document
ScanRead(i) ==
    /\ tasks[i].op = "scan" /\ tasks[i].pc = "read"
    /\ \E f \in tasks[i].seen :
       LET t == tasks[i]
           r == ResumeExtract(frameIndex, frameCache, t.path, t.mtime, f)
           x == Escaped("extract", r.threw)
           u == [t EXCEPT !.pc = "loop", !.path = <<>>, !.mtime = 0,
                          !.seen = {},
                          !.hits = IF ~x /\ r.fromCache THEN @ + 1 ELSE @,
                          !.misses = IF ~x /\ ~r.fromCache THEN @ + 1 ELSE @,
                          !.processed = IF x THEN @ ELSE @ + 1,
                          !.skipped = IF x THEN @ + 1 ELSE @,
                          !.todo = Tail(@)]
       IN /\ frameIndex' = r.index
          /\ frameCache' = r.cache
          /\ lastOp' = Op("scanRead", t.path, <<>>, ~r.threw, u.todo = <<>>)
          /\ ScanContinue(i, u, OthersDisturbed(i))
    /\ UNCHANGED <<vault, watching, editor, ops>>

\* ------------------------------------------------------------- file events
\* a handler runs extractFramesFromFileWithCache up to its await
StartExtract(op, p, old, m, idx, cache) ==
    LET
        \* handleFileModification is called for p while a call for p is suspended
        Overlaps(ts) ==
            /\ op = "modify"
            /\ \E j \in Slots : ts[j].op = "modify" /\ ts[j].pc = "read" /\ ts[j].path = p

        \* the suspended calls of handleFileModification for p are overlapped
        Overlapped(ts) ==
            [j \in Slots |->
                IF op = "modify" /\ ts[j].op = "modify" /\ ts[j].pc = "read" /\ ts[j].path = p
                THEN [ts[j] EXCEPT !.overlap = TRUE]
                ELSE ts[j]]
    IN
        LET b == BeginExtract(idx, cache, p, m) IN
        /\ frameIndex' = b.index
        /\ frameCache' = cache
        /\ IF b.hit
           THEN /\ tasks' = Observed(Disturbed(tasks))
                /\ lastOp' = Op(op, p, old, TRUE, TRUE)
           ELSE /\ tasks' = [Overlapped(Observed(Disturbed(tasks)))
                                EXCEPT ![FreeSlot] =
                                [Idle EXCEPT !.op = op, !.pc = "read", !.path = p,
                                             !.mtime = m, !.old = old,
                                             !.seen = {vault'[p]},
                                             !.before = IF op = "rename"
                                                        THEN frameIndex ELSE Empty,
                                             !.alone = AllIdle,
                                             !.overlap = Overlaps(tasks)]]
                /\ lastOp' = Op(op, p, old, TRUE, FALSE)

\* a modification that also drops the published list before the read
ModificationCleanupDropsIndex(idx, cache, p) ==
    [index |-> Del(idx, Basename(p)), cache |-> Del(cache, p)]

\* handleFileModification up to the await: the cache entry is dropped first
ModificationCleanup(idx, cache, p) ==
    [index |-> idx, cache |-> Del(cache, p)]

\* a deletion that forgets the index entry
DeletionCleanupKeepsIndex(idx, cache, p) ==
    [index |-> idx, cache |-> Del(cache, p)]

\* handleFileDeletion
DeletionCleanup(idx, cache, p) ==
    [index |-> IF Basename(p) # <<>> THEN Del(idx, Basename(p)) ELSE idx,
     cache |-> Del(cache, p)]

\* handleFileRename, the clean-up of the old path
RenameCleanup(idx, cache, oldPath) ==
    IF IsTracked(oldPath)
    THEN [index |-> IF OldBasename(oldPath) # <<>>
                    THEN Del(idx, OldBasename(oldPath)) ELSE idx,
          cache |-> Del(cache, oldPath)]
    ELSE [index |-> idx, cache |-> cache]

\* a document that can no longer be read has not been written: its
\* modification time stays; a write keeps the modification time or moves it on
WriteTimes(p, c) ==
    LET NextMtimes == {vault[p].mtime, vault[p].mtime + 1} \cap (1..MaxMtime)
    IN IF c.readable THEN NextMtimes ELSE {vault[p].mtime}

\* a document is written; when the listeners are registered,
\* vault.on('modify') runs handleFileModification
Modify(p, c, m) ==
    /\ ops < MaxOps
    /\ vault[p].exists
    /\ m \in WriteTimes(p, c)
    /\ vault' = [vault EXCEPT ![p] = [exists |-> TRUE, content |-> c, mtime |-> m]]
    /\ ops' = ops + 1
    /\ streak' = 0
    /\ IF watching /\ IsTracked(p)
       THEN /\ HasFreeSlot
            /\ LET s == ModificationCleanup(frameIndex, frameCache, p)
               IN StartExtract("modify", p, <<>>, m, s.index, s.cache)
       ELSE /\ tasks' = Observed(Disturbed(tasks))
            /\ UNCHANGED <<frameIndex, frameCache, lastOp>>
    /\ UNCHANGED <<isInitialized, watching, editor, report, probe>>

\* a document is deleted; vault.on('delete') runs handleFileDeletion
Delete(p) ==
    /\ ops < MaxOps
    /\ vault[p].exists
    /\ vault' = [vault EXCEPT ![p] = [NoFile EXCEPT !.mtime = vault[p].mtime]]
    /\ ops' = ops + 1
    /\ streak' = 0
    /\ tasks' = Observed(Disturbed(tasks))
    /\ IF watching /\ IsTracked(p)
       THEN LET s == DeletionCleanup(frameIndex, frameCache, p)
            IN /\ frameIndex' = s.index
               /\ frameCache' = s.cache
               /\ lastOp' = Op("delete", p, <<>>, TRUE, TRUE)
       ELSE UNCHANGED <<frameIndex, frameCache, lastOp>>
    /\ UNCHANGED <<isInitialized, watching, editor, report, probe>>

\* a document is moved from p to q; vault.on('rename') runs handleFileRename
Rename(p, q) ==
    /\ ops < MaxOps
    /\ p # q /\ vault[p].exists /\ ~vault[q].exists
    /\ vault' = [vault EXCEPT ![q] = vault[p],
                              ![p] = [NoFile EXCEPT !.mtime = vault[p].mtime]]
    /\ ops' = ops + 1
    /\ streak' = 0
    /\ IF watching /\ (IsTracked(q) \/ IsTracked(p))
       THEN LET s == RenameCleanup(frameIndex, frameCache, p)
            IN IF IsTracked(q)
               THEN /\ HasFreeSlot
                    /\ StartExtract("rename", q, p, vault[p].mtime,
                                    s.index, s.cache)
               ELSE /\ frameIndex' = s.index
                    /\ frameCache' = s.cache
                    /\ tasks' = Observed(Disturbed(tasks))
                    /\ lastOp' = Op("rename", q, p, TRUE, TRUE)
       ELSE /\ tasks' = Observed(Disturbed(tasks))
            /\ UNCHANGED <<frameIndex, frameCache, lastOp>>
    /\ UNCHANGED <<isInitialized, watching, editor, report, probe>>

\* what a handler does once its read has returned or thrown
Resumed(i) ==
    \E f \in tasks[i].seen :
    LET t == tasks[i]
        r == ResumeExtract(frameIndex, frameCache, t.path, t.mtime, f)
    IN /\ frameIndex' = r.index
       /\ frameCache' = r.cache
       /\ lastOp' = Op(t.op, t.path, t.old, ~r.threw, TRUE)
       /\ tasks' = [Disturbed(tasks) EXCEPT ![i] = Idle]
       /\ streak' = 0

\* the read of handleFileModification returns or throws
ModificationRead(i) ==
    /\ tasks[i].op = "modify" /\ tasks[i].pc = "read"
    /\ Resumed(i)
    /\ UNCHANGED <<vault, isInitialized, watching, editor, report, ops, probe>>

\* the read of handleFileRename returns or throws
RenameRead(i) ==
    /\ tasks[i].op = "rename" /\ tasks[i].pc = "read"
    /\ Resumed(i)
    /\ UNCHANGED <<vault, isInitialized, watching, editor, report, ops, probe>>

\* clearCache
ClearCache ==
    /\ ops < MaxOps /\ ops' = ops + 1
    /\ frameCache' = Empty
    /\ lastOp' = Op("clear", <<>>, <<>>, TRUE, TRUE)
    /\ tasks' = Disturbed(tasks)
    /\ streak' = 0
    /\ UNCHANGED <<vault, frameIndex, isInitialized, watching, editor, report, probe>>

\* getFramesForFile(name), called while the only scan is suspended at a read
Lookup(name) ==
    /\ ~probe.taken
    /\ \E i \in Slots :
          /\ ScanSlots = {i}
          /\ tasks[i].pc = "read" /\ tasks[i].alone
          /\ probe' = [taken |-> TRUE, name |-> name,
                       result |-> getFramesForFile(name),
                       before |-> LookupIn(tasks[i].before, name)]
    /\ UNCHANGED <<vault, frameIndex, frameCache, isInitialized, watching, editor,
                   tasks, report, ops, streak, lastOp>>

\* the names typed into a link: those of documents, one of no document, and
\* property names of Object.prototype
TypedNames == LookupNames \cup {<<"nosuch">>} \cup ObjectPrototype

\* getFramesForFile(name), called from the editor at any time
LookupTyped(name) ==
    /\ probe' = [taken |-> TRUE, name |-> name,
                 result |-> getFramesForFile(name), before |-> <<>>]
    /\ probe' # probe
    /\ UNCHANGED <<vault, frameIndex, frameCache, isInitialized, watching, editor,
                   tasks, report, ops, streak, lastOp>>

Next ==
    \/ ScanStart
    \/ ForceRescan
    \/ ScanEnumFail
    \/ \E i \in Slots : ScanHit(i)
    \/ \E i \in Slots : ScanMiss(i)
    \/ \E i \in Slots : ScanRead(i)
    \/ \E p \in Paths, c \in Written, m \in 1..MaxMtime : Modify(p, c, m)
    \/ \E p \in Paths : Delete(p)
    \/ \E p \in Paths, q \in Paths : Rename(p, q)
    \/ \E i \in Slots : ModificationRead(i)
    \/ \E i \in Slots : RenameRead(i)
    \/ ClearCache
    \/ \E name \in LookupNames : Lookup(name)

Spec == Init /\ [][Next]_vars

\* the editor looks names up while documents are modified and deleted
NextLookup ==
    \/ \E p \in Paths, c \in Written, m \in 1..MaxMtime : Modify(p, c, m)
    \/ \E i \in Slots : ModificationRead(i)
    \/ \E p \in Paths : Delete(p)
    \/ \E name \in TypedNames : LookupTyped(name)

SpecLookup == Init /\ [][NextLookup]_vars

\* the listeners are notified of changes to drawings and to notes
NextNotes ==
    \/ \E p \in AllPaths, c \in Written, m \in 1..MaxMtime : Modify(p, c, m)
    \/ \E p \in AllPaths : Delete(p)
    \/ \E p \in AllPaths, q \in AllPaths : Rename(p, q)
    \/ \E i \in Slots : ModificationRead(i)
    \/ \E i \in Slots : RenameRead(i)

SpecNotes == Init /\ [][NextNotes]_vars

ElementSeqs ==
    LET
        \* the members a drawing is made of
        ElementPool ==
            LET
                BlankName == [kind |-> "object", type |-> "frame", nameType |-> "string",
                              name |-> <<" ", "\t">>, id |-> <<"f2">>]

                NoName    == [kind |-> "object", type |-> "frame", nameType |-> "undefined",
                              name |-> <<>>, id |-> <<"f3">>]

                NumberName == [kind |-> "object", type |-> "frame", nameType |-> "number",
                               name |-> <<"7">>, id |-> <<"f4">>]
            IN
                {FrameA, FrameB, Shape, Junk, BlankName, NoName, NumberName}
    IN
        UNION {[1..n -> ElementPool] : n \in 0..MaxElems}

\* a document whose fenced block is the JSON of a drawing with these elements
Drawing(elements) ==
    [readable |-> TRUE, blank |-> FALSE, chars |-> <<96, 123, 97>>,
     fence |-> "json", spaced |-> FALSE,
     lz |-> EncodedBy("none", 0, <<>>), direct |-> Json(elements),
     elements |-> elements]

\* the vault holds one drawing, d1/x, of any elements
InitExtract ==
    /\ \E elements \in ElementSeqs :
          vault = [p \in AllPaths |->
                      IF p = P1 THEN File(Drawing(elements)) ELSE NoFile]
    /\ frameIndex = Empty
    /\ frameCache = Empty
    /\ isInitialized = FALSE
    /\ watching = FALSE
    /\ tasks = [i \in Slots |-> Idle]
    /\ report = NoReport
    /\ ops = 0
    /\ streak = 0
    /\ probe = NoProbe
    /\ lastOp = NoOp
    /\ editor = NoEditor

\* scans extract the frames of the drawing
NextExtract ==
    \/ ScanStart
    \/ \E i \in Slots : ScanHit(i)
    \/ \E i \in Slots : ScanMiss(i)
    \/ \E i \in Slots : ScanRead(i)

SpecExtract == InitExtract /\ [][NextExtract]_vars

\* the drawing each source of data decodes to, one per source
DataOf(s) ==
    CASE s = "base64" -> <<FrameA>>
      [] s = "utf16" -> <<FrameB>>
      [] s = "uri" -> <<FrameA, FrameB>>
      [] s = "raw" -> <<FrameB, FrameA>>
      [] OTHER -> <<FrameA, FrameA>>

\* what a method of lz-string can make of a body: it throws, returns null,
\* a text of exactly 50 characters, a longer text that does not parse, or a
\* longer text that parses
OutputsOf(s) ==
    {[NullOut EXCEPT !.thrown = TRUE],
     NullOut,
     TextOut(MinPlausibleLength, DataOf(s)),
     [TextOut(MinPlausibleLength + 1, <<>>) EXCEPT !.parses = FALSE],
     TextOut(MinPlausibleLength + 1, DataOf(s))}

LzTables == {t \in [StrategySet -> UNION {OutputsOf(s) : s \in StrategySet}] :
                \A s \in StrategySet : t[s] \in OutputsOf(s)}

\* a document with a fenced block of any body
Encoded(fence, spaced, lz, direct) ==
    [readable |-> TRUE, blank |-> FALSE, chars |-> <<96, 78>>,
     fence |-> fence, spaced |-> spaced, lz |-> lz, direct |-> direct,
     elements |-> <<>>]

\* the vault holds one document, d1/x, with a block of any body
InitDecode ==
    /\ \E fence \in {"compressed-json", "json"}, spaced \in BOOLEAN,
          lz \in LzTables, direct \in {NoJson, Json(DataOf("json"))} :
          vault = [p \in AllPaths |->
                      IF p = P1 THEN File(Encoded(fence, spaced, lz, direct))
                      ELSE NoFile]
    /\ frameIndex = Empty
    /\ frameCache = Empty
    /\ isInitialized = FALSE
    /\ watching = FALSE
    /\ tasks = [i \in Slots |-> Idle]
    /\ report = NoReport
    /\ ops = 0
    /\ streak = 0
    /\ probe = NoProbe
    /\ lastOp = NoOp
    /\ editor = NoEditor

\* a scan decodes the document
NextDecode ==
    \/ ScanStart
    \/ \E i \in Slots : ScanMiss(i)
    \/ \E i \in Slots : ScanRead(i)

SpecDecode == InitDecode /\ [][NextDecode]_vars

\* the vault holds one payload twice: d1/x stores it as plain JSON, y stores
\* it compressed by one method of lz-string, as a text of 50 or of 51
\* characters, with or without line breaks in the block body, under a
\* compressed-json fence
InitStored ==
    /\ \E elements \in UNION {[1..n -> {FrameA, FrameB, Shape}] : n \in 0..MaxElems},
          enc \in StrategySet, spaced \in BOOLEAN,
          len \in {MinPlausibleLength, MinPlausibleLength + 1} :
          vault = [p \in AllPaths |->
                      IF p = P1 THEN File(Drawing(elements))
                      ELSE IF p = P3
                      THEN File([Encoded("compressed-json", spaced,
                                         EncodedBy(enc, len, elements), NoJson)
                                    EXCEPT !.elements = elements])
                      ELSE NoFile]
    /\ frameIndex = Empty
    /\ frameCache = Empty
    /\ isInitialized = FALSE
    /\ watching = FALSE
    /\ tasks = [i \in Slots |-> Idle]
    /\ report = NoReport
    /\ ops = 0
    /\ streak = 0
    /\ probe = NoProbe
    /\ lastOp = NoOp
    /\ editor = NoEditor

SpecStored == InitStored /\ [][NextExtract]_vars

\* the vault holds one document, d1/x, of any fenced blocks: at most one
\* with each tag, in any order, each holding a drawing of its own
InitBlocks ==
    /\ LET
           Block(tag, lz, direct, elements) ==
               [tag |-> tag, spaced |-> FALSE, lz |-> lz, direct |-> direct,
                elements |-> elements]
           BlockPool ==
               {Block("compressed-json",
                      EncodedBy("base64", MinPlausibleLength + 1, <<FrameA>>),
                      NoJson, <<FrameA>>),
                Block("json", EncodedBy("none", 0, <<>>),
                      Json(<<FrameB>>), <<FrameB>>),
                Block("", EncodedBy("none", 0, <<>>),
                      Json(<<FrameA, FrameB>>), <<FrameA, FrameB>>),
                Block("js", EncodedBy("none", 0, <<>>), NoJson, <<>>)}
       IN
           \E n \in 0..Cardinality(BlockPool) :
              \E blocks \in [1..n -> BlockPool] :
                 /\ \A i, j \in 1..n : blocks[i] = blocks[j] => i = j
                 /\ vault = [p \in AllPaths |->
                                IF p = P1
                                THEN File([readable |-> TRUE, blank |-> FALSE,
                                           chars |-> <<96, 78>>,
                                           fence |-> "several",
                                           spaced |-> FALSE,
                                           lz |-> EncodedBy("none", 0, <<>>),
                                           direct |-> NoJson,
                                           elements |-> <<>>,
                                           blocks |-> blocks])
                                ELSE NoFile]
    /\ frameIndex = Empty
    /\ frameCache = Empty
    /\ isInitialized = FALSE
    /\ watching = FALSE
    /\ tasks = [i \in Slots |-> Idle]
    /\ report = NoReport
    /\ ops = 0
    /\ streak = 0
    /\ probe = NoProbe
    /\ lastOp = NoOp
    /\ editor = NoEditor

SpecBlocks == InitBlocks /\ [][NextExtract]_vars

\* ------------------------------------------------------------- the editor
\* frames whose names hold brackets: one that keeps a letter, one that is
\* brackets only
FrameBr == [kind |-> "object", type |-> "frame", nameType |-> "string",
            name |-> <<"[", " ", "A", "]">>, id |-> <<"f5">>]
RECURSIVE Flatten(_, _)
Flatten(ps, i) == IF i > Len(ps) THEN <<>> ELSE ps[i] \o Flatten(ps, i + 1)

\* the lines of up to MaxLine pieces
Lines ==
    LET
        \* what the user's input is made of: brackets, '#' and the file name
        Pieces ==
            LET
                \* the name the user types for the drawing d1/x: its basename
                FileName == Basename(P1)
            IN
                {<<"[">>, <<"]">>, <<"#">>, FileName}
    IN
        {Flatten(ps, 1) : ps \in UNION {[1..n -> Pieces] : n \in 0..MaxLine}}

\* the vault holds the drawing d1/x with a plain frame and the two frames
\* whose names hold brackets
InitEditor ==
    LET
        FrameBrOnly == [kind |-> "object", type |-> "frame", nameType |-> "string",
                        name |-> <<"[", "]">>, id |-> <<"f6">>]
    IN
        /\ vault = [p \in AllPaths |->
                       IF p = P1
                       THEN File(Drawing(<<FrameA, FrameBr, FrameBrOnly>>))
                       ELSE NoFile]
        /\ frameIndex = Empty
        /\ frameCache = Empty
        /\ isInitialized = FALSE
        /\ watching = FALSE
        /\ tasks = [i \in Slots |-> Idle]
        /\ report = NoReport
        /\ ops = 0
        /\ streak = 0
        /\ probe = NoProbe
        /\ lastOp = NoOp
        /\ editor = NoEditor

IndexerUnchanged ==
    UNCHANGED <<vault, frameIndex, frameCache, isInitialized, watching,
                tasks, report, ops, streak, probe, lastOp>>

\* onload: initializeCore scans the vault before the editor is set up
OnloadScan == ~editor.registered /\ ScanStart

\* initializeCore after its scan: registerEditorExtension
RegisterEditorExtension ==
    /\ isInitialized /\ AllIdle
    /\ ~editor.registered
    /\ editor' = [editor EXCEPT !.registered = TRUE]
    /\ IndexerUnchanged

\* the toggle 'Enable Frame Suggestions' is switched off in the settings
\* tab before the note is touched: the setting is stored and disableCore
\* forgets its reference to the extension
SwitchOff ==
    /\ editor.enabled
    /\ editor.lineText = <<>>
    /\ editor' = [editor EXCEPT !.enabled = FALSE, !.offInput = FALSE]
    /\ IndexerUnchanged

\* the toggle is switched on: initializeCore registers an extension (the
\* scan of its new indexer reads the same vault)
SwitchOn ==
    /\ ~editor.enabled
    /\ editor.lineText = <<>>
    /\ isInitialized /\ AllIdle
    /\ editor' = [editor EXCEPT !.enabled = TRUE, !.registered = TRUE]
    /\ IndexerUnchanged

\* ExcalinkViewPlugin.update: the user types into the empty note or moves
\* the cursor; the check of the pattern is scheduled
Update ==
    /\ editor.registered
    /\ editor.lineText = <<>>
    /\ ~editor.currentModal.open
    /\ \E lineText \in Lines : \E cursor \in 0..Len(lineText) :
          editor' = [editor EXCEPT !.lineText = lineText, !.cursor = cursor,
                                   !.debounceTimer = TRUE,
                                   !.checked = FALSE,
                                   !.offInput = ~editor.enabled]
    /\ IndexerUnchanged

\* checkForWikilinkPattern
PatternCheck(e, idx) ==
    LET wikilinkMatch == findWikilinkAtCursor(e.lineText, e.cursor) IN
    IF wikilinkMatch.found
    THEN IF wikilinkMatch.filename # <<>>
            /\ Includes(wikilinkMatch.fullMatch, <<"#">>)
            /\ ModalFor(idx, wikilinkMatch).open
         THEN ModalFor(idx, wikilinkMatch)
         ELSE e.currentModal
    ELSE NoModal

\* the debounce timer fires
TimerFires ==
    /\ editor.debounceTimer
    /\ editor' = [editor EXCEPT !.debounceTimer = FALSE,
                                !.currentModal = PatternCheck(editor, frameIndex),
                                !.checked = TRUE]
    /\ IndexerUnchanged

\* the user picks the k-th frame of the modal: the callback of the modal
\* runs insertFrameLink; a transaction notifies the view plugin
Select(k) ==
    /\ editor.currentModal.open
    /\ k \in 1..Len(editor.currentModal.frames)
    /\ LET modal == editor.currentModal
           selectedFrame == modal.frames[k]
           out == insertFrameLink(selectedFrame, modal.filename, modal.match,
                                  editor.lineText, editor.cursor)
       IN editor' = [editor EXCEPT
                        !.currentModal = NoModal,
                        !.lineText = out.line,
                        !.cursor = out.cursor,
                        !.debounceTimer = out.done,
                        !.checked = FALSE,
                        !.selected = [taken |-> TRUE,
                                      frame |-> selectedFrame,
                                      filename |-> modal.filename,
                                      match |-> modal.match,
                                      line |-> editor.lineText,
                                      cursor |-> editor.cursor]]
    /\ IndexerUnchanged

\* the user closes the modal with Escape
Dismiss ==
    /\ editor.currentModal.open
    /\ editor' = [editor EXCEPT !.currentModal = NoModal]
    /\ IndexerUnchanged

NextEditor ==
    \/ OnloadScan
    \/ \E i \in Slots : ScanMiss(i)
    \/ \E i \in Slots : ScanRead(i)
    \/ RegisterEditorExtension
    \/ SwitchOff
    \/ SwitchOn
    \/ Update
    \/ TimerFires
    \/ \E k \in 1..MaxElems : Select(k)
    \/ Dismiss

SpecEditor == InitEditor /\ [][NextEditor]_vars


\* ------------------------------------------------------ the editor's time
\* the slider 'Debounce Delay' of the settings tab is moved
SetDebounceDelay(value) ==
    /\ value # editor.clock.debounceDelay
    /\ editor' = [editor EXCEPT !.clock.debounceDelay = value]
    /\ IndexerUnchanged

\* ExcalinkViewPlugin.update with docChanged or selectionSet: the user
\* types or moves the cursor; the pending timeout is cleared and a new one
\* is set
update(lineText, cursor) ==
    /\ editor.registered /\ ~editor.clock.destroyed
    /\ ~editor.currentModal.open
    /\ LET k == editor.clock
           t == [at |-> k.now, due |-> k.now + TimerDelay]
       IN editor' = [editor EXCEPT
                        !.lineText = lineText, !.cursor = cursor,
                        !.debounceTimer = TRUE,
                        !.checked = FALSE,
                        !.offInput = ~editor.enabled,
                        !.clock = [k EXCEPT
                                      !.timers = (@ \ {k.handle}) \cup {t},
                                      !.handle = t,
                                      !.lastUpdate = k.now]]
    /\ IndexerUnchanged

\* the callback of the timeout that was set at the instant `at` runs
\* checkForWikilinkPattern when it is due
TimerCallback(at) ==
    /\ \E t \in editor.clock.timers :
          /\ t.at = at
          /\ t.due <= editor.clock.now
          /\ editor' = [editor EXCEPT
                           !.debounceTimer = FALSE,
                           !.currentModal = PatternCheck(editor, frameIndex),
                           !.checked = TRUE,
                           !.clock.timers = @ \ {t},
                           !.clock.checks = @ + 1]
    /\ IndexerUnchanged

\* time passes; a timeout runs in the instant it is due
Tick ==
    /\ editor.registered
    /\ editor.clock.now < MaxTime
    /\ \A t \in editor.clock.timers : t.due > editor.clock.now
    /\ editor' = [editor EXCEPT !.clock.now = @ + 1]
    /\ IndexerUnchanged

\* ExcalinkViewPlugin.destroy: the editor drops the view plugin, which is
\* not updated any more
destroy ==
    /\ editor.registered /\ ~editor.clock.destroyed
    /\ editor' = [editor EXCEPT
                     !.debounceTimer = FALSE,
                     !.currentModal = NoModal,
                     !.clock.timers = @ \ {editor.clock.handle},
                     !.clock.handle = [at |-> 0, due |-> 0],
                     !.clock.destroyed = TRUE]
    /\ IndexerUnchanged

NextDebounce ==
    \/ OnloadScan
    \/ \E i \in Slots : ScanMiss(i)
    \/ \E i \in Slots : ScanRead(i)
    \/ RegisterEditorExtension
    \/ \E value \in {MinDelay, DefaultDelay, MaxDelay} : SetDebounceDelay(value)
    \/ \E lineText \in {<<"#">>, <<"[", "[">> \o Basename(P1) \o <<"#">>} :
          \E cursor \in 0..Len(lineText) : update(lineText, cursor)
    \/ \E at \in 0..MaxTime : TimerCallback(at)
    \/ Tick
    \/ destroy
    \/ Dismiss

SpecDebounce == InitEditor /\ [][NextDebounce]_vars

\* the note is changed while the modal is open, by a transaction that does
\* not come from the keyboard of the editor: one character is removed or
\* inserted at `at`, the cursor stays or moves with the change, and update
\* is called. One such change happens between two pattern checks.
ExternalChange(at, removed, inserted) ==
    /\ editor.registered /\ ~editor.clock.destroyed
    /\ editor.currentModal.open /\ editor.checked
    /\ at + removed <= Len(editor.lineText)
    /\ Len(editor.lineText) - removed + Len(inserted) <= MaxLine + 2
    /\ removed + Len(inserted) > 0
    /\ \E cursor \in {editor.cursor,
                       editor.cursor + Len(inserted) - removed} :
          /\ cursor \in 0..(Len(editor.lineText) - removed + Len(inserted))
          /\ editor' = [editor EXCEPT
                           !.lineText = SubSeq(@, 1, at) \o inserted
                                           \o SubSeq(@, at + removed + 1, Len(@)),
                           !.cursor = cursor,
                           !.debounceTimer = TRUE,
                           !.checked = FALSE,
                           !.clock.timers =
                               (@ \ {editor.clock.handle})
                                  \cup {[at |-> editor.clock.now,
                                         due |-> editor.clock.now + TimerDelay]},
                           !.clock.handle =
                               [at |-> editor.clock.now,
                                due |-> editor.clock.now + TimerDelay],
                           !.clock.lastUpdate = editor.clock.now]
    /\ IndexerUnchanged

\* the user types a link into the empty note
TypeLink(lineText, cursor) ==
    /\ editor.lineText = <<>>
    /\ update(lineText, cursor)

NextReselect ==
    \/ OnloadScan
    \/ \E i \in Slots : ScanMiss(i)
    \/ \E i \in Slots : ScanRead(i)
    \/ RegisterEditorExtension
    \/ \E lineText \in {<<"[", "[">> \o Basename(P1) \o <<"#">>,
                         <<"[", "[">> \o Basename(P1) \o <<"#", "]", "]">>} :
          \E cursor \in 0..Len(lineText) : TypeLink(lineText, cursor)
    \/ \E at \in 0..MaxTime : TimerCallback(at)
    \/ Tick
    \/ \E at \in 0..(MaxLine + 2), removed \in {0, 1},
          inserted \in {<<>>} \cup {<<ch>> : ch \in {"[", "]", "#", "x"}} :
          ExternalChange(at, removed, inserted)
    \/ \E k \in 1..MaxElems : Select(k)
    \/ Dismiss

SpecReselect == InitEditor /\ [][NextReselect]_vars

\* ---------------------------------------------------- the plugin's core
\* the plugin is loaded with its default settings, or with file watching off
InitCore ==
    /\ vault \in InitialVaults
    /\ frameIndex = Empty
    /\ frameCache = Empty
    /\ isInitialized = FALSE
    /\ watching \in BOOLEAN
    /\ tasks = [i \in Slots |-> Idle]
    /\ report = NoReport
    /\ ops = 0
    /\ streak = 0
    /\ probe = NoProbe
    /\ lastOp = NoOp
    /\ editor = NoEditor

\* initializeCore up to the first await of its scan, called by onload or by
\* the toggle 'Enable Frame Suggestions' when it is switched on: a new
\* FrameIndexer replaces the one the plugin had, and its scan begins
InitializeCoreBegins ==
    /\ ~editor.initializing /\ AllIdle
    /\ \/ editor.enabled /\ ~editor.registered
       \/ ~editor.enabled
    /\ editor.listeners < Cardinality(Slots)
    /\ ops < MaxOps /\ ops' = ops + 1
    /\ editor' = [editor EXCEPT !.enabled = TRUE, !.initializing = TRUE]
    /\ frameIndex' = Empty
    /\ frameCache' = Empty
    /\ lastOp' = Op("scanStart", <<>>, <<>>, TRUE, Candidates = <<>>)
    /\ LET t == [Idle EXCEPT !.op = "scan", !.pc = "loop",
                             !.todo = Candidates, !.total = Len(Candidates),
                             !.alone = TRUE, !.clean = TRUE]
       IN IF Candidates = <<>>
          THEN ScanContinue(FreeSlot, t, tasks)
          ELSE /\ tasks' = [tasks EXCEPT ![FreeSlot] = t]
               /\ isInitialized' = FALSE
               /\ UNCHANGED <<report, streak, probe>>
    /\ UNCHANGED <<vault, watching>>

\* initializeCore after its scan: registerEditorExtension, and
\* setupFileChangeListeners when settings.enableFileWatching is on
InitializeCoreEnds ==
    /\ editor.initializing /\ ScanSlots = {}
    /\ editor' = [editor EXCEPT !.initializing = FALSE, !.registered = TRUE,
                                !.listeners = IF watching THEN @ + 1 ELSE @]
    /\ IndexerUnchanged

\* each registered listener of the event calls the handler, and each call
\* runs extractFramesFromFileWithCache up to its await before the next
\* listener is called: the calls that miss the cache are all suspended at
\* their reads
Dispatch(op, p, old, m, s) ==
    IF editor.listeners = 1 \/ BeginExtract(s.index, s.cache, p, m).hit
    THEN /\ HasFreeSlot
         /\ StartExtract(op, p, old, m, s.index, s.cache)
    ELSE /\ AllIdle
         /\ frameIndex' = s.index
         /\ frameCache' = s.cache
         /\ tasks' = [i \in Slots |->
                         [Idle EXCEPT !.op = op, !.pc = "read", !.path = p,
                                      !.mtime = m, !.old = old,
                                      !.seen = {vault'[p]},
                                      !.before = IF op = "rename"
                                                 THEN frameIndex ELSE Empty,
                                      !.overlap = op = "modify"]]
         /\ lastOp' = Op(op, p, old, TRUE, FALSE)

\* a document is written: vault.on('modify') calls every registered listener
CoreModify(p, c, m) ==
    /\ ops < MaxOps
    /\ vault[p].exists
    /\ m \in WriteTimes(p, c)
    /\ vault' = [vault EXCEPT ![p] = [exists |-> TRUE, content |-> c, mtime |-> m]]
    /\ ops' = ops + 1
    /\ streak' = 0
    /\ IF editor.listeners > 0 /\ IsTracked(p)
       THEN Dispatch("modify", p, <<>>, m,
                     ModificationCleanup(frameIndex, frameCache, p))
       ELSE /\ tasks' = Observed(Disturbed(tasks))
            /\ UNCHANGED <<frameIndex, frameCache, lastOp>>
    /\ UNCHANGED <<isInitialized, watching, editor, report, probe>>

\* a document is deleted: vault.on('delete') calls every registered
\* listener; a second call of handleFileDeletion finds nothing to remove
CoreDelete(p) ==
    /\ ops < MaxOps
    /\ vault[p].exists
    /\ vault' = [vault EXCEPT ![p] = [NoFile EXCEPT !.mtime = vault[p].mtime]]
    /\ ops' = ops + 1
    /\ streak' = 0
    /\ tasks' = Observed(Disturbed(tasks))
    /\ IF editor.listeners > 0 /\ IsTracked(p)
       THEN LET s == DeletionCleanup(frameIndex, frameCache, p)
            IN /\ frameIndex' = s.index
               /\ frameCache' = s.cache
               /\ lastOp' = Op("delete", p, <<>>, TRUE, TRUE)
       ELSE UNCHANGED <<frameIndex, frameCache, lastOp>>
    /\ UNCHANGED <<isInitialized, watching, editor, report, probe>>

\* a document is moved from p to q: vault.on('rename') calls every
\* registered listener
CoreRename(p, q) ==
    /\ ops < MaxOps
    /\ p # q /\ vault[p].exists /\ ~vault[q].exists
    /\ vault' = [vault EXCEPT ![q] = vault[p],
                              ![p] = [NoFile EXCEPT !.mtime = vault[p].mtime]]
    /\ ops' = ops + 1
    /\ streak' = 0
    /\ IF editor.listeners > 0 /\ (IsTracked(q) \/ IsTracked(p))
       THEN LET s == RenameCleanup(frameIndex, frameCache, p)
            IN IF IsTracked(q)
               THEN Dispatch("rename", q, p, vault[p].mtime, s)
               ELSE /\ frameIndex' = s.index
                    /\ frameCache' = s.cache
                    /\ tasks' = Observed(Disturbed(tasks))
                    /\ lastOp' = Op("rename", q, p, TRUE, TRUE)
       ELSE /\ tasks' = Observed(Disturbed(tasks))
            /\ UNCHANGED <<frameIndex, frameCache, lastOp>>
    /\ UNCHANGED <<isInitialized, watching, editor, report, probe>>

NextCore ==
    \/ InitializeCoreBegins
    \/ \E i \in Slots : ScanHit(i)
    \/ \E i \in Slots : ScanMiss(i)
    \/ \E i \in Slots : ScanRead(i)
    \/ InitializeCoreEnds
    \/ SwitchOff
    \/ \E p \in Paths, c \in Written, m \in 1..MaxMtime : CoreModify(p, c, m)
    \/ \E p \in Paths : CoreDelete(p)
    \/ \E p \in Paths, q \in Paths : CoreRename(p, q)
    \/ \E i \in Slots : ModificationRead(i)
    \/ \E i \in Slots : RenameRead(i)

SpecCore == InitCore /\ [][NextCore]_vars

\* ------------------------------------------------------------ properties
\* another document that exists has the same short name as p
SharesName(p) ==
    \E q \in Paths \ {p} : vault[q].exists /\ Basename(q) = Basename(p)

\* the task in slot i took the step (the steps of others only touch its
\* history fields)
Stepped(i) ==
    [tasks'[i] EXCEPT !.alone = tasks[i].alone, !.clean = tasks[i].clean,
                      !.after = tasks[i].after, !.seen = tasks[i].seen,
                      !.overlap = tasks[i].overlap]
        # tasks[i]

\* C1: whenever no handler is suspended, the Index is derived from the
\* CacheEntry set: a short name returns the frames of the cache entry of a
\* document with that short name, and nothing when there is no such entry.
C1_IndexDerivedFromCache ==
    AllIdle =>
        \A s \in ShortNames :
            LET owners == {p \in DOMAIN frameCache : Basename(p) = s} IN
            IF owners = {}
            THEN getFramesForFile(s) = <<>>
            ELSE \E p \in owners : getFramesForFile(s) = frameCache[p].frames

\* C2: when handleFileModification has completed with a successful read, the
\* short name of the document returns exactly the frames of its current
\* content, also when that content holds no frame.
C2_ModificationRepublishes ==
    (/\ lastOp.op = "modify" /\ lastOp.done /\ lastOp.ok
     /\ ~SharesName(lastOp.path))
    => getFramesForFile(Basename(lastOp.path))
           = parseFramesFromContent(vault[lastOp.path].content)

\* C3: right after handleFileDeletion the cache entry of the path is gone
\* and the short name of the document returns the empty list.
C3_DeletionClears ==
    lastOp.op = "delete" =>
        /\ lastOp.path \notin DOMAIN frameCache
        /\ getFramesForFile(Basename(lastOp.path)) = <<>>

\* a deletion was handled while another document stays published
C3_Witness ==
    /\ lastOp.op = "delete"
    /\ \E s \in ShortNames : getFramesForFile(s) # <<>>

\* the list that was published for the old short name when the rename began
RenamedFrames(t) == LookupIn(t.before, Basename(t.old))

\* C4: when handleFileRename has completed for a document that was published
\* with the frames of its content and that nothing else touched, the old
\* short name returns the empty list, the cache entry of the old path is
\* gone, and the new short name returns the frames that were published
\* under the old one.
C4_RenameMovesFrames ==
    [][\A i \in Slots :
          (/\ tasks[i].op = "rename" /\ tasks'[i].op = "idle"
           /\ tasks[i].alone /\ lastOp'.ok
           /\ Basename(tasks[i].old) # Basename(tasks[i].path)
           /\ ~SharesName(tasks[i].path)
           /\ RenamedFrames(tasks[i])
                 = parseFramesFromContent(vault[tasks[i].path].content)
           /\ \A q \in Paths :
                 vault[q].exists => Basename(q) # Basename(tasks[i].old))
          => /\ LookupIn(frameIndex', Basename(tasks[i].old)) = <<>>
             /\ tasks[i].old \notin DOMAIN frameCache'
             /\ LookupIn(frameIndex', Basename(tasks[i].path))
                    = RenamedFrames(tasks[i])]_vars

C6_FailedModificationKeepsFrames ==
    [][\A i \in Slots :
          /\ (tasks[i].op = "idle" /\ tasks'[i].op = "modify")
                => frameIndex' = frameIndex
          /\ (tasks[i].op = "modify" /\ tasks'[i].op = "idle" /\ ~lastOp'.ok)
                => /\ tasks[i].alone => frameIndex' = frameIndex
                   /\ getFramesForFile(Basename(tasks[i].path)) # <<>>
                         => LookupIn(frameIndex', Basename(tasks[i].path)) # <<>>
                   /\ tasks'[i] = Idle]_vars

\* a modification failed at its read and the old list is still published
C6_Witness ==
    /\ lastOp.op = "modify" /\ lastOp.done /\ ~lastOp.ok
    /\ getFramesForFile(Basename(lastOp.path)) # <<>>

\* the counters of the scan in slot i after a step: those of the task, or
\* those of the report when the step ended the scan
CountersAfter(i) == IF tasks'[i].op = "scan" THEN tasks'[i] ELSE report'

AllReadable == \A p \in Paths : IsCandidate(p) => vault[p].content.readable

\* the Index and the report at the end of a scan that started from the
\* Index `before`: the same Index, and every candidate a cache hit
AllHits(before) ==
    /\ frameIndex' = before
    /\ report'.total = Len(Candidates)
    /\ report'.hits = report'.total
    /\ report'.misses = 0
    /\ report'.skipped = 0

\* the step ends a scan that followed a completed scan with no change and
\* no other call in between or during either of them
SecondScanEnds(i) ==
    /\ tasks[i].op = "scan" /\ tasks'[i].op = "idle"
    /\ tasks[i].alone /\ tasks[i].follows

\* the same for a scan of a vault that has no candidate
SecondScanOfNothing ==
    /\ Candidates = <<>> /\ AllIdle /\ streak >= 1
    /\ ops' = ops + 1 /\ lastOp'.op = "scanStart" /\ lastOp'.ok

C9_FailedDocumentKeepsEntry ==
    [][\A i \in Slots :
          (/\ tasks[i].op = "scan" /\ tasks[i].pc = "read"
           /\ Stepped(i) /\ ~lastOp'.ok
           /\ tasks[i].alone /\ ~SharesName(tasks[i].path))
          => /\ LookupIn(frameIndex', Basename(tasks[i].path))
                   = LookupIn(tasks[i].before, Basename(tasks[i].path))
             /\ Len(tasks[i].todo) > 1
                   => /\ tasks'[i].op = "scan" /\ tasks'[i].pc = "loop"
                      /\ tasks'[i].todo = Tail(tasks[i].todo)]_vars

\* C10: a lookup made while the only scan is suspended at a read returned
\* the list published before the scan started or the list published when
\* the scan completes.
C10_LookupSeesBeforeOrAfter ==
    [][\A i \in Slots :
          (/\ tasks[i].op = "scan" /\ tasks'[i].op = "idle"
           /\ tasks[i].alone /\ probe.taken)
          => \/ probe.result = probe.before
             \/ probe.result = LookupIn(frameIndex', probe.name)]_vars

\* C11: right after clearCache() the cache holds no entry and every short
\* name returns the empty list.
C11_ClearDropsEverything ==
    lastOp.op = "clear" =>
        /\ Cardinality(DOMAIN frameCache) = 0
        /\ \A s \in ShortNames : getFramesForFile(s) = <<>>

\* C12: once every scan has finished after a forced rescan that overlapped an
\* earlier scan, each document with frames is published with the frames of its
\* current content, no other short name is published, and each published list
\* equals the list of its CacheEntry.
C12_ForcedRescanSelfConsistent ==
    [][
        LET
            \* the last scan of the task table ends at this step, every scan has finished
            LastScanEnds(i) ==
                /\ tasks[i].op = "scan" /\ tasks'[i].op = "idle"
                /\ \A j \in Slots : tasks'[j].op = "idle"

            \* the forced rescan that ran over an earlier scan is the latest scan, and no
            \* document changed since it began
            AfterForcedRescan(i) ==
                \/ tasks[i].forced /\ tasks[i].clean
                \/ tasks[i].after

            Documents == {p \in Paths : vault[p].exists /\ IsTracked(p)}

            \* the published lists are those of the documents as they are, no other short
            \* name is published, and each published list is the list of a CacheEntry
            SelfConsistent(idx, cache) ==
                /\ \A p \in Documents :
                       (~SharesName(p) /\ parseFramesFromContent(vault[p].content) # <<>>)
                       => LookupIn(idx, Basename(p)) = parseFramesFromContent(vault[p].content)
                /\ \A n \in DOMAIN idx : \E p \in Documents : Basename(p) = n
                /\ \A n \in DOMAIN idx :
                       \E p \in DOMAIN cache : Basename(p) = n /\ cache[p].frames = idx[n]
        IN
            \A i \in Slots :
               (LastScanEnds(i) /\ AfterForcedRescan(i))
               => SelfConsistent(frameIndex', frameCache')
    ]_vars

\* C13: when the listing of the candidate documents throws, the scan fails
\* towards its caller and leaves the cache and the Index as they were.
C13_EnumerationFailureKeepsData ==
    [][
        LET
            \* the step in which a scan fails at the listing of the vault
            EnumerationFails ==
                ops' = ops + 1 /\ lastOp'.op = "scanStart" /\ ~lastOp'.ok
        IN
            EnumerationFails =>
               /\ lastOp'.escaped
               /\ frameIndex' = frameIndex
               /\ frameCache' = frameCache
    ]_vars

C13_Witness ==
    /\ lastOp.op = "scanStart" /\ ~lastOp.ok /\ lastOp.escaped
    /\ DOMAIN frameIndex # {} /\ DOMAIN frameCache # {}

C15_GarbageYieldsEmptyList ==
    [][
        LET
            \* the fenced block of the content is garbage: there is a block and neither
            \* decompression nor JSON parsing gets anything out of it
            IsGarbage(c) ==
                /\ c.readable /\ ~c.blank /\ c.fence # "none"
                /\ ~DecompressOk(c) /\ ~JsonParseOk(c)

            \* the task in slot i resumes with the garbage it has read, which is the
            \* only content the document had while the task was suspended
            ProcessesGarbage(i) ==
                /\ tasks[i].op \in {"scan", "modify"} /\ tasks[i].pc = "read"
                /\ Stepped(i)
                /\ tasks[i].alone /\ ~SharesName(tasks[i].path)
                /\ tasks[i].seen = {vault[tasks[i].path]}
                /\ IsGarbage(vault[tasks[i].path].content)
        IN
            \A i \in Slots :
               ProcessesGarbage(i)
               => /\ lastOp'.ok /\ ~lastOp'.escaped
                  /\ LookupIn(frameIndex', Basename(tasks[i].path)) = <<>>
                  /\ \A n \in ShortNames \ {Basename(tasks[i].path)} :
                         LookupIn(frameIndex', n) = LookupIn(frameIndex, n)
    ]_vars

\* C16: getFramesForFile(name) changes neither the cache nor the Index and
\* returns the list published for name, the empty list for every name that
\* has no published entry.
C16_LookupReturnsPublishedOrEmpty ==
    [][
        LET
            \* the step is a lookup of `name` from the editor
            LooksUp(name) == probe' # probe /\ probe'.taken /\ probe'.name = name
        IN
            \A name \in TypedNames :
               LooksUp(name)
               => /\ frameIndex' = frameIndex /\ frameCache' = frameCache
                  /\ probe'.result = IF name \in DOMAIN frameIndex
                                     THEN frameIndex[name] ELSE <<>>
    ]_vars

\* C17: a modification or deletion of a document whose path does not end
\* with .excalidraw.md, and a rename in which neither path ends with it,
\* leaves the cache and the Index unchanged.
C17_UntrackedPathsIgnored ==
    [][
        LET
            \* the paths whose document the step writes, removes or creates
            Changed == {p \in AllPaths : vault'[p] # vault[p]}
        IN
            (/\ Changed # {}
             /\ \A p \in Changed : ~EndsWith(p, <<".excalidraw", ".md">>))
            => frameIndex' = frameIndex /\ frameCache' = frameCache
    ]_vars

\* with the listeners registered and a list published, the note n was
\* written and then renamed to d1/m
C17_Witness ==
    /\ watching /\ AllIdle
    /\ DOMAIN frameIndex # {} /\ DOMAIN frameCache # {}
    /\ ~vault[PN].exists
    /\ vault[PM].exists /\ vault[PM].content = DocAB

\* C18: a scan counts every candidate once: processed = hits + misses, at
\* its end processed + skipped = number of candidates, and a document whose
\* processing raised an error is counted as skipped, not as hit or miss.
C18_EveryCandidateCountedOnce ==
    [][\A i \in Slots :
          (tasks[i].op = "scan" /\ Stepped(i))
          => LET c == CountersAfter(i) IN
             /\ c.processed = c.hits + c.misses
             /\ tasks'[i].op = "idle" => c.processed + c.skipped = c.total
             /\ (tasks[i].pc = "read" /\ ~lastOp'.ok)
                   => /\ c.skipped = tasks[i].skipped + 1
                      /\ c.hits = tasks[i].hits
                      /\ c.misses = tasks[i].misses]_vars

\* the element is an object of type frame whose name is a string with a
\* character that is no whitespace
Qualifies(e) ==
    /\ e.kind = "object" /\ e.type = "frame" /\ e.nameType = "string"
    /\ \E k \in DOMAIN e.name : e.name[k] \notin Whitespace

\* the position of the j-th qualifying element
QualifyingAt(elements, j) ==
    CHOOSE k \in DOMAIN elements :
        /\ Qualifies(elements[k])
        /\ Cardinality({m \in 1..k : Qualifies(elements[m])}) = j

\* C19: the extractor returns one record per element that is an object of
\* type frame with a string name that is not empty after trimming, in the
\* order of the elements; every other element is skipped and the rest is
\* still extracted; equal names are not merged.
C19_OneRecordPerFrameElement ==
    LET
        \* one record per qualifying element, in the order of the elements
        OneRecordPerFrame(elements, frames) ==
            /\ Len(frames) = Cardinality({k \in DOMAIN elements : Qualifies(elements[k])})
            /\ \A j \in DOMAIN frames :
                   frames[j].name = Trim(elements[QualifyingAt(elements, j)].name)
    IN
        P1 \in DOMAIN frameCache
        => OneRecordPerFrame(vault[P1].content.elements, frameCache[P1].frames)

\* two frames of one name around a member that is no object were extracted
C19_Witness ==
    /\ P1 \in DOMAIN frameCache
    /\ vault[P1].content.elements = <<FrameA, Junk, FrameA>>
    /\ Len(frameCache[P1].frames) = 2
    /\ getFramesForFile(Basename(P1)) = frameCache[P1].frames

\* C20: every extracted record carries an index, the position of its element
\* among all elements counted from 0, so that ordering by index gives the
\* order of creation.
C20_RecordsCarryElementIndex ==
    P1 \in DOMAIN frameCache
    => LET elements == vault[P1].content.elements
           frames == frameCache[P1].frames
       IN \A j \in DOMAIN frames :
             /\ "index" \in DOMAIN frames[j]
             /\ frames[j].index = QualifyingAt(elements, j) - 1

\* what the method makes of the body without its whitespace is not empty,
\* longer than 50 characters and parses as JSON
Acceptable(c, s) ==
    ~c.lz[s].thrown /\ c.lz[s].len > MinPlausibleLength /\ c.lz[s].parses

\* the position of the first strategy with an acceptable output, 0 if none
FirstAcceptable(c) ==
    IF \E i \in DOMAIN Strategies : Acceptable(c, Strategies[i])
    THEN CHOOSE i \in DOMAIN Strategies :
            /\ Acceptable(c, Strategies[i])
            /\ \A j \in 1..(i - 1) : ~Acceptable(c, Strategies[j])
    ELSE 0

\* C21: decompress strips the whitespace of its input and tries base64,
\* UTF-16, URI-component and raw in this order; it returns the parsed data
\* of the first strategy whose output is longer than 50 characters and
\* parses, tries no later strategy, and fails when none is accepted. The
\* frames cached for a compressed-json document are those of that data.
C21_FirstAcceptedStrategyWins ==
    LET c == vault[P1].content
        k == FirstAcceptable(c)
        d == decompress(c)
    IN /\ Strategies = <<"base64", "utf16", "uri", "raw">>
       /\ k = 0 => ~d.ok /\ d.tried = Strategies
       /\ k > 0 => /\ d.ok
                   /\ d.data = c.lz[Strategies[k]].data
                   /\ d.tried = SubSeq(Strategies, 1, k)
       /\ (k > 0 /\ c.fence = "compressed-json" /\ P1 \in DOMAIN frameCache)
             => frameCache[P1].frames
                   = extractFramesFromExcalidrawData(c.lz[Strategies[k]].data)

\* a body with whitespace whose base64 method throws, whose UTF-16 output
\* has just 50 characters and whose URI-component and raw outputs are both
\* acceptable was decoded to the data of the URI-component output
C21_Witness ==
    LET c == vault[P1].content IN
    /\ P1 \in DOMAIN frameCache
    /\ c.fence = "compressed-json" /\ c.spaced
    /\ c.lz["base64"].thrown
    /\ c.lz["utf16"] = TextOut(MinPlausibleLength, DataOf("utf16"))
    /\ Acceptable(c, "uri") /\ Acceptable(c, "raw")
    /\ frameCache[P1].frames = extractFramesFromExcalidrawData(DataOf("uri"))
    /\ getFramesForFile(Basename(P1)) = frameCache[P1].frames

\* C22: a compressed-json body that no strategy accepts is parsed as JSON,
\* a json body that does not parse is handed to decompress; the frames of a
\* successful fallback are extracted, and when both ways fail the document
\* has no frames and nothing is thrown.
C22_FallbackToTheOtherDecoding ==
    P1 \in DOMAIN frameCache
    => LET c == vault[P1].content
           k == FirstAcceptable(c)
           frames == frameCache[P1].frames
       IN /\ (c.fence = "compressed-json" /\ k = 0 /\ c.direct.ok)
                => frames = extractFramesFromExcalidrawData(c.direct.data)
          /\ (c.fence = "json" /\ ~c.direct.ok /\ k > 0)
                => frames = extractFramesFromExcalidrawData(c.lz[Strategies[k]].data)
          /\ (k = 0 /\ ~c.direct.ok) => frames = <<>>
          /\ lastOp.op = "scanRead" => lastOp.ok

\* a compressed-json body that no strategy accepts and that parses as JSON
\* was decoded to the frames of the parsed JSON
C22_Witness ==
    LET c == vault[P1].content IN
    /\ P1 \in DOMAIN frameCache
    /\ c.fence = "compressed-json" /\ FirstAcceptable(c) = 0 /\ c.direct.ok
    /\ frameCache[P1].frames # <<>>
    /\ frameCache[P1].frames = extractFramesFromExcalidrawData(DataOf("json"))

\* C23: a document whose content differs from the content that was cached
\* is detected as changed by its hash and processed again by the next scan
\* even when its modification time equals the cached one.
C23_ChangedContentIsReprocessed ==
    [][
        LET
            \* the loop of the scan in slot i takes a readable document whose cache
            \* entry has the modification time of the document and the hash of another
            \* content
            TakesChangedContent(i) ==
                /\ tasks[i].op = "scan" /\ tasks[i].pc = "loop" /\ tasks[i].todo # <<>>
                /\ Stepped(i)
                /\ LET p == Head(tasks[i].todo) IN
                   /\ p \in DOMAIN frameCache
                   /\ vault[p].exists /\ vault[p].content.readable /\ ~vault[p].content.blank
                   /\ frameCache[p].lastModified = vault[p].mtime
                   /\ frameCache[p].contentHash # generateContentHash(vault[p].content)
        IN
            \A i \in Slots :
               TakesChangedContent(i)
               => /\ tasks'[i].pc = "read"
                  /\ tasks'[i].path = Head(tasks[i].todo)
    ]_vars

\* C24: the number of files kept in the frame cache never exceeds
\* settings.maxCacheSize, after any sequence of scans and file events.
C24_CacheSizeBounded ==
    Cardinality(DOMAIN frameCache) <= maxCacheSize

\* C25: once 'Enable Frame Suggestions' is switched off, no typing or cursor
\* movement that follows opens a frame suggestion modal while the setting
\* stays off
C25_NoModalWhileSwitchedOff ==
    [][
        LET
            \* the step opens a frame suggestion modal
            OpensModal == ~editor.currentModal.open /\ editor'.currentModal.open
        IN
            OpensModal => ~(~editor.enabled /\ editor.offInput)
    ]_vars


\* the detected link, from its '[[' to its ']]' or to the cursor, was
\* replaced by the link; the text around it is as it was and the cursor
\* stands behind the link
ReplacedDetectedLink ==
    LET
        \* the link the selection is to insert: the file of the modal and the name
        \* of the picked frame without brackets, trimmed
        SelectedLink ==
            <<"[", "[">> \o editor.selected.filename \o <<"#", "^", "frame=">>
                \o Trim(WithoutBrackets(editor.selected.frame.name)) \o <<"]", "]">>
    IN
        LET sel == editor.selected
            from == sel.match.startPos
            to == sel.match.endPos
        IN /\ Substring(sel.line, from, from + 2) = <<"[", "[">>
           /\ IF sel.match.isComplete
              THEN to > sel.cursor /\ Substring(sel.line, to - 2, to) = <<"]", "]">>
              ELSE to = sel.cursor
           /\ editor.lineText = Substring(sel.line, 0, from) \o SelectedLink
                                    \o Substring(sel.line, to, Len(sel.line))
           /\ editor.cursor = from + Len(SelectedLink)

\* C26 as stated: picking a frame in the modal replaces the detected link
\* text by '[[F#^frame=N]]', N without brackets and trimmed, leaves the rest
\* of the line alone and puts the cursor behind the link
C26_SelectionReplacesLink == editor.selected.taken => ReplacedDetectedLink

\* C26: picking a frame whose name keeps a character once its brackets are
\* removed and it is trimmed replaces the detected link text by
\* '[[F#^frame=N]]', leaves the rest of the line alone and puts the cursor
\* behind the link; picking a frame whose name keeps nothing changes
\* neither the line nor the cursor
C26_SelectionOfNamedFrameReplacesLink ==
    editor.selected.taken =>
        IF Trim(WithoutBrackets(editor.selected.frame.name)) # <<>>
        THEN ReplacedDetectedLink
        ELSE /\ editor.lineText = editor.selected.line
             /\ editor.cursor = editor.selected.cursor

\* a frame with brackets in its name was picked for an unclosed link that
\* has text before it and behind the cursor
C26_Witness ==
    /\ editor.selected.taken
    /\ editor.selected.frame.name = FrameBr.name
    /\ ~editor.selected.match.isComplete
    /\ editor.selected.match.startPos > 0
    /\ editor.selected.cursor < Len(editor.selected.line)
    /\ editor.lineText # editor.selected.line


\* C27 as stated: findWikilinkAtCursor returns a match whenever the cursor
\* is inside a link, closed or unclosed, whose content is a file name
\* followed by '#', and null when no '[[' precedes the cursor or the content
\* has no '#'
C27_MatchInsideEveryFrameLink ==
    LET
        \* where the last '[[' that starts before the cursor starts, -1 without one
        LastOpen(line, cursor) ==
            LET opens == {i \in 0..(cursor - 1) :
                             /\ i + 2 <= Len(line)
                             /\ line[i + 1] = "[" /\ line[i + 2] = "["}
            IN IF opens = {} THEN -1
               ELSE CHOOSE i \in opens : \A k \in opens : k <= i

        \* where the first ']]' at or behind the cursor starts, -1 without one
        FirstClose(line, cursor) ==
            LET closes == {j \in cursor..(Len(line) - 2) :
                              line[j + 1] = "]" /\ line[j + 2] = "]"}
            IN IF closes = {} THEN -1
               ELSE CHOOSE j \in closes : \A k \in closes : j <= k

        \* the content of the link at the cursor: what stands between its '[[' and
        \* its ']]', or the end of the line when it is not closed (the unclosed
        \* '[[incomplete#' has its '#' behind the cursor at position 12)
        LinkContent(line, cursor) ==
            LET close == FirstClose(line, cursor)
            IN SubSeq(line, LastOpen(line, cursor) + 3,
                      IF close = -1 THEN Len(line) ELSE close)

        \* the content is a file name that is not empty, followed by '#'; a file
        \* name holds no bracket
        FileThenHash(content) ==
            \E k \in 2..Len(content) :
                /\ content[k] = "#"
                /\ \A m \in 1..(k - 1) : content[m] \notin {"#", "[", "]"}
                /\ \E m \in 1..(k - 1) : content[m] \notin Whitespace

        \* the cursor stands behind the '[[' of a link, closed or not, whose
        \* content is a file name and a '#'
        InsideFrameLink(line, cursor) ==
            /\ LastOpen(line, cursor) # -1
            /\ LastOpen(line, cursor) + 2 <= cursor
            /\ FileThenHash(LinkContent(line, cursor))

        \* no '[[' starts before the cursor, or the content of the link has no '#'
        OutsideFrameLink(line, cursor) ==
            \/ LastOpen(line, cursor) = -1
            \/ \A k \in DOMAIN LinkContent(line, cursor) :
                   LinkContent(line, cursor)[k] # "#"
    IN
        editor.checked =>
            /\ InsideFrameLink(editor.lineText, editor.cursor)
                   => findWikilinkAtCursor(editor.lineText, editor.cursor).found
            /\ OutsideFrameLink(editor.lineText, editor.cursor)
                   => ~findWikilinkAtCursor(editor.lineText, editor.cursor).found



\* C28: when two calls of handleFileModification for one document overlap
\* and both have finished, the CacheEntry and the Index of the document hold
\* the frames of its latest content
C28_OverlappingModificationsKeepLatest ==
    [][
        LET
            \* the CacheEntry of p holds the frames of the content of p, and so does
            \* the Index when the content has frames
            HoldsLatest(p, idx, cache) ==
                LET frames == parseFramesFromContent(vault[p].content) IN
                /\ p \in DOMAIN cache
                /\ cache[p].frames = frames
                /\ frames # <<>> => LookupIn(idx, Basename(p)) = frames

            \* the step ends the last of two calls of handleFileModification for one
            \* document that overlapped
            LastOfOverlapping(i) ==
                /\ tasks[i].op = "modify" /\ tasks[i].overlap
                /\ tasks'[i].op = "idle"
                /\ \A j \in Slots : tasks'[j].op = "idle"
        IN
            \A i \in Slots :
               (/\ LastOfOverlapping(i)
                /\ vault[tasks[i].path].exists
                /\ vault[tasks[i].path].content.readable
                /\ ~vault[tasks[i].path].content.blank)
                   => HoldsLatest(tasks[i].path, frameIndex', frameCache')
    ]_vars


\* C29: handleFileModification and handleFileRename reach their read, the
\* only point where they are suspended, before they delete or write any
\* CacheEntry or Index entry of the document
C29_NothingMutatedBeforeTheRead ==
    [][
        LET
            \* the entry of key k is the same in the maps m and n
            SameEntry(m, n, k) ==
                /\ (k \in DOMAIN m) = (k \in DOMAIN n)
                /\ k \in DOMAIN m => m[k] = n[k]

            \* the step starts a call of handleFileModification or handleFileRename
            \* in slot i and leaves it suspended at its read
            SuspendsAtRead(i) ==
                /\ tasks[i].op = "idle"
                /\ tasks'[i].op \in {"modify", "rename"}
                /\ tasks'[i].pc = "read"
        IN
            \A i \in Slots :
               SuspendsAtRead(i) =>
                   /\ SameEntry(frameCache, frameCache', tasks'[i].path)
                   /\ SameEntry(frameCache, frameCache', tasks'[i].old)
                   /\ SameEntry(frameIndex, frameIndex', Basename(tasks'[i].path))
                   /\ SameEntry(frameIndex, frameIndex', OldBasename(tasks'[i].old))
    ]_vars


\* C30: once handleFileDeletion has run for a document and the operations
\* that were suspended at a read of it have finished, the document has no
\* CacheEntry and no Index entry: an update that completes late does not
\* put it back
C30_DeletedDocumentStaysOut ==
    [][
        LET
            \* the step resumes, in slot i, the read of the document that
            \* handleFileDeletion has just been run for, and leaves no operation
            \* suspended at a read of that document
            LateAfterDeletion(i) ==
                /\ lastOp.op = "delete"
                /\ tasks[i].pc = "read" /\ tasks[i].path = lastOp.path
                /\ Stepped(i)
                /\ \A j \in Slots :
                      ~(tasks'[j].pc = "read" /\ tasks'[j].path = lastOp.path)
        IN
            \A i \in Slots :
               LateAfterDeletion(i) =>
                   /\ lastOp.path \notin DOMAIN frameCache'
                   /\ ~SharesName(lastOp.path)
                         => Basename(lastOp.path) \notin DOMAIN frameIndex'
    ]_vars

\* C31: when handleFileModification, handleFileDeletion or handleFileRename
\* has completed for a document, another existing document with the same short
\* name that was processed with at least one frame still has a non-empty list
\* under that short name, and the list is that of an existing document
C31_SharedNameKeepsFrames ==
    LET
        \* the paths the handler that completed last was called for
        Touched == {lastOp.path, lastOp.old} \ {<<>>}

        \* the document at p exists and its CacheEntry holds the frames of its
        \* content, of which there is at least one
        ProcessedWithFrames(p) ==
            /\ IsCandidate(p)
            /\ CacheHit(frameCache, p, vault[p].mtime)
            /\ frameCache[p].frames = parseFramesFromContent(vault[p].content)
            /\ frameCache[p].frames # <<>>
    IN
        (/\ lastOp.op \in {"modify", "delete", "rename"} /\ lastOp.done
         /\ AllIdle)
        => \A p \in Paths \ Touched :
              (/\ \E q \in Touched : Basename(q) = Basename(p)
               /\ ProcessedWithFrames(p))
              => /\ getFramesForFile(Basename(p)) # <<>>
                 /\ \E q \in Paths :
                       /\ IsCandidate(q) /\ Basename(q) = Basename(p)
                       /\ getFramesForFile(Basename(p))
                              = parseFramesFromContent(vault[q].content)

\* C32: for the tracked old path of every rename that handleFileRename is
\* run for, the key it removes from the Index (oldBasename) is the key under
\* which the scan and the modification handler publish the document at that
\* path (file.basename)
C32_RenameRemovesPublishedKey ==
    (lastOp.op = "rename" /\ IsTracked(lastOp.old))
    => OldBasename(lastOp.old) = Basename(lastOp.old)

\* C33: when scanAllExcalidrawFiles has run alone to its end and nothing
\* happened since, every CacheEntry is that of a document the scan listed, an
\* existing tracked document, and the cache is no larger than their number;
\* stated for the case the claim names, file watching being off
C33_ScanKeepsOnlyListedDocuments ==
    (streak >= 1 /\ ~watching) =>
        /\ \A p \in DOMAIN frameCache : IsCandidate(p)
        /\ Cardinality(DOMAIN frameCache)
              <= Cardinality({p \in Paths : IsCandidate(p)})

\* C34: in every reachable state every list stored in the Index has at least
\* one frame, and getFramesForFile returns the empty list for exactly the
\* names that have no key in the Index
C34_PublishedListsNonEmpty ==
    /\ \A n \in DOMAIN frameIndex : frameIndex[n] # <<>>
    /\ \A name \in TypedNames :
           getFramesForFile(name) = <<>> <=> name \notin DOMAIN frameIndex

\* C35: once the listeners are registered, a notification that a tracked
\* document was written starts handleFileModification once, and a notification
\* that a document was moved to a tracked path starts handleFileRename once
\* (served from the cache, or suspended at one read), also when
\* initializeCore has run more than once
C35_NotificationHandledOnce ==
    [][
        LET
            \* the calls of the handler `op` for p that the step suspends
            Started(op, p) ==
                {i \in Slots : /\ tasks[i].op = "idle"
                               /\ tasks'[i].op = op /\ tasks'[i].path = p}
        IN
            \A p \in Paths :
               (IsTracked(p) /\ editor.listeners >= 1 /\ vault'[p] # vault[p])
               => /\ (vault[p].exists /\ vault'[p].exists)
                     => Cardinality(Started("modify", p)) = 1
                  /\ (~vault[p].exists /\ vault'[p].exists)
                     => Cardinality(Started("rename", p))
                           = IF lastOp'.done THEN 0 ELSE 1
    ]_vars

C37_BlockPriority ==
    LET
        blocks == vault[P1].content.blocks
        Has(tag) == FirstTagged(blocks, tag, 1) > 0
        Picked(tag) == blocks[FirstTagged(blocks, tag, 1)]
        Expected ==
            IF Has("compressed-json") THEN Picked("compressed-json").elements
            ELSE IF Has("json") THEN Picked("json").elements
            ELSE IF Has("") THEN Picked("").elements
            ELSE <<>>
    IN
        /\ P1 \in DOMAIN frameCache
              => frameCache[P1].frames = extractFramesFromExcalidrawData(Expected)
        /\ (lastOp.op = "scanRead" /\ lastOp.path = P1)
              => lastOp.ok /\ P1 \in DOMAIN frameCache

\* C38: a pattern check runs only when settings.debounceDelay has passed
\* since the last update, at most one timeout is pending at any time, and
\* no check runs after destroy()
C38_CheckAfterConfiguredDelay ==
    [][
        /\ editor'.clock.checks # editor.clock.checks
              => /\ editor.clock.now - editor.clock.lastUpdate
                        >= editor.clock.debounceDelay
                 /\ ~editor.clock.destroyed
        /\ Cardinality(editor'.clock.timers) <= 1
    ]_vars

\* C39: when a frame is selected and the text at the positions of the
\* detected match is no longer the detected link, the link is detected again
\* at the cursor; the text is replaced only at the positions of a link that
\* was found there for the same file name, and in every other case the line
\* and the cursor stay as they are
C39_ReplacesOnlyRedetectedLink ==
    [][
        LET
            modal == editor.currentModal
            line == editor.lineText
            \* the text at the detected positions has changed
            Changed ==
                Substring(line, modal.match.startPos, modal.match.endPos)
                    # modal.match.fullMatch
            newMatch == findWikilinkAtCursor(line, editor.cursor)
            SameFile == newMatch.found /\ newMatch.filename = modal.match.filename
            Untouched == editor'.lineText = line /\ editor'.cursor = editor.cursor
            \* the line outside the link that was found again is kept, and
            \* the cursor stands behind what replaced the link
            ReplacedAt(from, to) ==
                LET after == Len(line) - to IN
                /\ Len(editor'.lineText) >= from + after
                /\ SubSeq(editor'.lineText, 1, from) = SubSeq(line, 1, from)
                /\ SubSeq(editor'.lineText, Len(editor'.lineText) - after + 1,
                          Len(editor'.lineText))
                      = SubSeq(line, to + 1, Len(line))
                /\ editor'.cursor = Len(editor'.lineText) - after
        IN
            (/\ modal.open /\ ~editor'.currentModal.open
             /\ Changed)
            => /\ Untouched \/ (SameFile /\ ReplacedAt(newMatch.startPos,
                                                      newMatch.endPos))
               /\ ~SameFile => Untouched
    ]_vars

\* a frame was selected after the link had moved in the line, and the link
\* that was found again at the cursor was replaced by the frame link
C39_Witness ==
    LET s == editor.selected IN
    /\ s.taken
    /\ Substring(s.line, s.match.startPos, s.match.endPos) # s.match.fullMatch
    /\ findWikilinkAtCursor(s.line, s.cursor).found
    /\ findWikilinkAtCursor(s.line, s.cursor).startPos # s.match.startPos
    /\ editor.lineText # s.line
    /\ Includes(editor.lineText, <<"#", "^", "frame=">>)

====
